---- MODULE Spec2Model ----
(***************************************************************************)
(* A model of TimeLogHistoryWorker (src/lib/TimeLogHistoryWorker.cpp): the *)
(* two tables timelog and removed with their SQLite triggers, the command  *)
(* handlers insert / import / remove / edit / editCategory / sync / undo,  *)
(* the in-memory size, category set and undo stack, and the signals one    *)
(* command emits.                                                          *)
(*                                                                         *)
(* SQL NULL of a scalar sub-select is modelled by an empty set of values,  *)
(* RAISE(IGNORE) by a result that leaves the tables alone and counts no    *)
(* row, a failed statement by ok = FALSE.  A field mask is the set of its  *)
(* flags.                                                                  *)
(***************************************************************************)
EXTENDS Integers, Sequences, FiniteSets, TLC

\* ------------------------------------------------------------ value domains

\* Bounds of the model.
MaxStart == 3
MaxMTime == 2
MaxBatch == 2
MaxCmds == 1
MaxRestarts == 1

UUIDs == {"u1", "u2"}
\* QUuid() : the null uuid of a default-constructed TimeLogEntry.
NullUuid == "null"
Starts == 1 .. MaxStart
\* QDateTime().toTime_t() is (uint)-1, later than every valid start.
InvalidStart == MaxStart + 2
\* What fromTime_t(NULL.toUInt()) gives for the start of a tombstone record.
EpochStart == 0
Categories == {"a", "b"}
NoCategory == ""
Comments == {"c"}
NoComment == ""
MTimes == 1 .. MaxMTime
\* An invalid QDateTime as mTime: the write takes the current time instead.
NoMTime == 0

StartTime == "StartTime"
DurationTime == "DurationTime"
Category == "Category"
Comment == "Comment"
PrecedingStart == "PrecedingStart"
NoFields == {}
AllFieldsMask == {StartTime, Category, Comment}

maxUndoSize == 10

\* ------------------------------------------------------------------ helpers

Max(S) == CHOOSE x \in S : \A y \in S : y <= x
Min(S) == CHOOSE x \in S : \A y \in S : x <= y
Abs(x) == IF x < 0 THEN 0 - x ELSE x

Range(s) == {s[i] : i \in 1 .. Len(s)}

\* SELECT start FROM timelog WHERE start < s ORDER BY start DESC LIMIT 1
PrevStart(tl, s) ==
  LET lower == {r.start : r \in {q \in tl : q.start < s}}
  IN IF lower = {} THEN {} ELSE {Max(lower)}

\* SELECT start FROM timelog WHERE start > s ORDER BY start ASC LIMIT 1
NextStart(tl, s) ==
  LET upper == {r.start : r \in {q \in tl : q.start > s}}
  IN IF upper = {} THEN {} ELSE {Min(upper)}

\* NULLIF(a, b)
NULLIF(a, b) == IF a = b THEN {} ELSE a

\* check_update_timelog with NEW.mtime <= OLD.mtime.
check_update_timelog_orEqual(old, new) == new.mtime <= old.mtime

\* check_update_timelog that never raises IGNORE.
check_update_timelog_never(old, new) == FALSE

\* The BEFORE UPDATE trigger, which fires for every UPDATE of timelog, the
\* triggers' own updates of duration included: NEW.mtime < OLD.mtime ignores.
check_update_timelog(old, new) == new.mtime < old.mtime

\* The row r with duration=IFNULL(end - start, -1).
WithDuration(r, end) ==
  [r EXCEPT !.duration = IF end = {} THEN -1 ELSE (CHOOSE x \in end : TRUE) - r.start]

\* UPDATE timelog SET duration=IFNULL(end - start, -1) WHERE start=at, run
\* inside a trigger; at and end are the values of scalar sub-selects.
SetDuration(tl, at, end) ==
  {IF r.start \in at /\ ~check_update_timelog(r, WithDuration(r, end))
     THEN WithDuration(r, end)
     ELSE r : r \in tl}

\* ----------------------------------------------------------------- triggers

\* check_insert_timelog with NEW.mtime <= mtime.
check_insert_timelog_orEqual(rm, new) ==
  \E t \in rm : t.uuid = new.uuid /\ new.mtime <= t.mtime

\* check_insert_timelog that never raises IGNORE.
check_insert_timelog_never(rm, new) == FALSE

\* BEFORE INSERT ON timelog: a tombstone with a later mtime ignores the insert.
check_insert_timelog(rm, new) ==
  \E t \in rm : t.uuid = new.uuid /\ new.mtime < t.mtime

\* insert_timelog without its DELETE FROM removed.
insert_timelog_keepRemoved(tl, rm, new) ==
  [tl |-> SetDuration(SetDuration(tl, PrevStart(tl, new.start), {new.start}),
                      {new.start}, NextStart(tl, new.start)),
   rm |-> rm]

\* AFTER INSERT ON timelog: the duration of the previous row, the duration of
\* the new row, and the tombstone of the uuid deleted.  The result is the
\* pair of tables.
insert_timelog(tl, rm, new) ==
  [tl |-> SetDuration(SetDuration(tl, PrevStart(tl, new.start), {new.start}),
                      {new.start}, NextStart(tl, new.start)),
   rm |-> {t \in rm : t.uuid # new.uuid}]

\* delete_timelog without its UPDATE.
delete_timelog_none(tl, old) == tl

\* AFTER DELETE ON timelog: the duration of the row before the deleted one.
delete_timelog(tl, old) ==
  SetDuration(tl, PrevStart(tl, old.start), NextStart(tl, old.start))

\* update_timelog without its first UPDATE.
update_timelog_skipPrevious(tl, old, new) ==
  SetDuration(
    SetDuration(tl,
                NULLIF(PrevStart(tl, old.start), PrevStart(tl, new.start)),
                NextStart(tl, old.start)),
    {new.start}, NextStart(tl, new.start))

\* AFTER UPDATE OF start ON timelog: the duration of the row before the new
\* place, of the row before the old place unless it is the same row, and of
\* the moved row.
update_timelog(tl, old, new) ==
  SetDuration(
    SetDuration(
      SetDuration(tl, PrevStart(tl, new.start), {new.start}),
      NULLIF(PrevStart(tl, old.start), PrevStart(tl, new.start)),
      NextStart(tl, old.start)),
    {new.start}, NextStart(tl, new.start))

\* BEFORE INSERT ON removed: a tombstone with a later mtime ignores the write.
check_insert_removed(rm, new) ==
  \E t \in rm : t.uuid = new.uuid /\ new.mtime < t.mtime

\* insert_removed without its DELETE FROM timelog.
insert_removed_keepLive(tl, new) == tl

\* AFTER INSERT ON removed: DELETE FROM timelog WHERE uuid=NEW.uuid, each
\* deleted row firing delete_timelog.
insert_removed(tl, new) ==
  LET gone == {r \in tl : r.uuid = new.uuid}
  IN IF gone = {} THEN tl
     ELSE delete_timelog(tl \ gone, CHOOSE r \in gone : TRUE)

\* --------------------------------------------------------------- statements
\* Each statement yields [tl, rm, ok, n]: the tables after it, whether exec()
\* succeeded, and numRowsAffected (sqlite3_changes: the rows the statement
\* itself wrote, not those its triggers or REPLACE touched).

\* The duration of a row the INSERT has just written, before insert_timelog
\* sets it (the column is not in the INSERT's list: SQL NULL).
NullDuration == -2

StmtResult(tl, rm, ok, n) == [tl |-> tl, rm |-> rm, ok |-> ok, n |-> n]

\* The statement wrote one row and its AFTER trigger left the tables t.
Applied(t) == StmtResult(t.tl, t.rm, TRUE, 1)

Row(e, m) ==
  [uuid |-> e.uuid, start |-> e.start, category |-> e.category,
   comment |-> e.comment, duration |-> NullDuration, mtime |-> m]

\* The INSERT without the BEFORE trigger.
InsertStmt_unchecked(tl, rm, e, m) ==
  IF \E r \in tl : r.start = e.start \/ r.uuid = e.uuid
    THEN StmtResult(tl, rm, FALSE, 0)
  ELSE Applied(insert_timelog(tl \cup {Row(e, m)}, rm, Row(e, m)))

\* INSERT INTO timelog (uuid, start, category, comment, mtime) VALUES (?,?,?,?,?)
\* The BEFORE trigger runs first, then the PRIMARY KEY (start) and UNIQUE
\* (uuid) checks, then the AFTER trigger.
InsertStmt(tl, rm, e, m) ==
  IF check_insert_timelog(rm, Row(e, m)) THEN StmtResult(tl, rm, TRUE, 0)
  ELSE IF \E r \in tl : r.start = e.start \/ r.uuid = e.uuid
    THEN StmtResult(tl, rm, FALSE, 0)
  ELSE Applied(insert_timelog(tl \cup {Row(e, m)}, rm, Row(e, m)))

\* INSERT OR REPLACE INTO removed (uuid, mtime) VALUES(?,?)
RemoveStmt(tl, rm, uuid, m) ==
  LET new == [uuid |-> uuid, mtime |-> m]
  IN IF check_insert_removed(rm, new) THEN StmtResult(tl, rm, TRUE, 0)
     ELSE StmtResult(insert_removed(tl, new),
                     {t \in rm : t.uuid # uuid} \cup {new}, TRUE, 1)

\* UPDATE timelog SET <fields>, mtime=? WHERE uuid=?
UpdateStmt(tl, rm, e, fields, m) ==
  LET hit == {r \in tl : r.uuid = e.uuid}
  IN IF hit = {} THEN StmtResult(tl, rm, TRUE, 0)
     ELSE
       LET old == CHOOSE r \in hit : TRUE
           new == [old EXCEPT
                     !.start = IF StartTime \in fields THEN e.start ELSE @,
                     !.category = IF Category \in fields THEN e.category ELSE @,
                     !.comment = IF Comment \in fields THEN e.comment ELSE @,
                     !.mtime = m]
           rest == tl \ {old}
       IN IF check_update_timelog(old, new) THEN StmtResult(tl, rm, TRUE, 0)
          ELSE IF \E r \in rest : r.start = new.start
            THEN StmtResult(tl, rm, FALSE, 0)
          ELSE IF StartTime \in fields
            THEN StmtResult(update_timelog(rest \cup {new}, old, new), rm, TRUE, 1)
          ELSE StmtResult(rest \cup {new}, rm, TRUE, 1)

\* UPDATE timelog SET category=?, mtime=? WHERE category=?
UpdateCategoryStmt(tl, rm, oldName, newName, m) ==
  LET upd(r) == [r EXCEPT !.category = newName, !.mtime = m]
      tl1 == {IF r.category = oldName /\ ~check_update_timelog(r, upd(r))
                THEN upd(r) ELSE r : r \in tl}
  IN StmtResult(tl1, rm, TRUE,
                Cardinality({r \in tl : r.category = oldName
                                        /\ ~check_update_timelog(r, upd(r))}))
\* ------------------------------------------------------------ entry values
\* A TimeLogSyncData is [uuid, start, category, comment, mtime]; a
\* TimeLogEntry converted to one has the invalid mTime, NoMTime.

Entry(u, s, c, k) ==
  [uuid |-> u, start |-> s, category |-> c, comment |-> k, mtime |-> NoMTime]
SyncRec(u, s, c, k, m) ==
  [uuid |-> u, start |-> s, category |-> c, comment |-> k, mtime |-> m]

\* TimeLogSyncData() / TimeLogEntry(): null uuid, invalid start, empty texts.
DefaultEntry == Entry(NullUuid, InvalidStart, NoCategory, NoComment)

\* A tombstone as getSyncData reads it: start, category and comment NULL.
TombRec(t) == SyncRec(t.uuid, EpochStart, NoCategory, NoComment, t.mtime)
LiveRec(r) == SyncRec(r.uuid, r.start, r.category, r.comment, r.mtime)

isValid(e) ==
  e.uuid # NullUuid /\ e.start # InvalidStart /\ e.category # NoCategory

\* The rows of S as a sequence in ascending start (ORDER BY start ASC, and the
\* rowid order of an unordered SELECT: start is the INTEGER PRIMARY KEY).
RECURSIVE ByStart(_)
ByStart(S) ==
  IF S = {} THEN <<>>
  ELSE LET r == CHOOSE x \in S : \A y \in S : x.start <= y.start
       IN <<r>> \o ByStart(S \ {r})

\* The records of S in ascending mtime (ORDER BY mtime ASC of getSyncData);
\* records of one mtime come in one fixed order.
RECURSIVE ByMTime(_)
ByMTime(S) ==
  IF S = {} THEN <<>>
  ELSE LET r == CHOOSE x \in S : \A y \in S : x.mtime <= y.mtime
       IN <<r>> \o ByMTime(S \ {r})

\* ------------------------------------------------------------------ signals
\* One emitted signal: its name, the uuids of the entries it carries (in
\* order), a number (size, undo count), a category set, a field mask.

Ev(type, us, n, cs, fs) ==
  [type |-> type, u |-> us, n |-> n, cats |-> cs, fields |-> fs]
Sig(type) == Ev(type, <<>>, 0, {}, {})

\* A signal reaches the log when the observer is connected to it.
emit(w, e) == IF e.type \in w.observe THEN [w EXCEPT !.ev = Append(@, e)] ELSE w

Emitted(evs, type) == \E i \in 1 .. Len(evs) : evs[i].type = type

\* ------------------------------------------------------- in-memory scalars
\* The worker during a command is the record w: the tables tl and rm, m_size,
\* m_categories, m_undoStack, the signals emitted so far (ev), the result of
\* the last call (ok), whether a write statement failed (wfail) and whether a
\* Q_ASSERT on an argument was violated (bad).

setSize(w, size) ==
  IF w.size = size THEN w
  ELSE emit([w EXCEPT !.size = size], Ev("sizeChanged", <<>>, size, {}, {}))

removeFromCategories(w, category) ==
  IF category \notin w.cats THEN w
  ELSE LET w1 == [w EXCEPT !.cats = @ \ {category}]
       IN emit(w1, Ev("categoriesChanged", <<>>, 0, w1.cats, {}))

addToCategories(w, category) ==
  IF category \in w.cats THEN w
  ELSE LET w1 == [w EXCEPT !.cats = @ \cup {category}]
       IN emit(w1, Ev("categoriesChanged", <<>>, 0, w1.cats, {}))

\* processFail without its m_undoStack.clear().
processFail_keepUndo(w) == emit(w, Sig("dataOutdated"))

processFail(w) ==
  LET w1 == emit([w EXCEPT !.undo = <<>>], Ev("undoCountChanged", <<>>, 0, {}, {}))
  IN emit(w1, Sig("dataOutdated"))

\* pushUndo without its takeFirst().
pushUndo_keepAll(w, undo) ==
  emit([w EXCEPT !.undo = Append(@, undo)],
       Ev("undoCountChanged", <<>>, Len(w.undo) + 1, {}, {}))

pushUndo(w, undo) ==
  LET pushed == Append(w.undo, undo)
  IN IF Len(pushed) > maxUndoSize
       THEN [w EXCEPT !.undo = Tail(pushed)]
       ELSE emit([w EXCEPT !.undo = pushed],
                 Ev("undoCountChanged", <<>>, Len(pushed), {}, {}))

\* SELECT count(*) FROM timelog
updateSize(w) == [setSize(w, Cardinality(w.tl)) EXCEPT !.ok = TRUE]

\* SELECT DISTINCT category FROM timelog WHERE start BETWEEN begin AND end,
\* with the default range, which holds every valid start up to now.
updateCategories(w) ==
  LET result == {r.category : r \in {q \in w.tl : q.start < InvalidStart}}
      w1 == [w EXCEPT !.cats = result, !.ok = TRUE]
  IN emit(w1, Ev("categoriesChanged", <<>>, 0, result, {}))

\* ------------------------------------------------------------------ queries

getEntry(w, uuid) ==
  LET hit == {r \in w.tl : r.uuid = uuid}
  IN IF hit = {} THEN DefaultEntry
     ELSE LET r == CHOOSE x \in hit : TRUE
          IN Entry(r.uuid, r.start, r.category, r.comment)

getEntries(w, category) ==
  LET rows == ByStart({r \in w.tl : r.category = category})
  IN [i \in 1 .. Len(rows) |->
        Entry(rows[i].uuid, rows[i].start, rows[i].category, rows[i].comment)]

\* The live row and the tombstone of uuid, ORDER BY mtime DESC LIMIT 1: a
\* sequence of at most one record.
getSyncAffected(tl, rm, uuid) ==
  LET found == {LiveRec(r) : r \in {q \in tl : q.uuid = uuid}}
               \cup {TombRec(t) : t \in {q \in rm : q.uuid = uuid}}
  IN IF found = {} THEN <<>>
     ELSE <<CHOOSE x \in found : \A y \in found : y.mtime <= x.mtime>>

\* getSyncData(mBegin, mEnd): the rows and the tombstones with an mtime in
\* (mBegin, mEnd], ORDER BY mtime ASC.
getSyncData(tl, rm, mBegin, mEnd) ==
  ByMTime({LiveRec(r) : r \in {q \in tl : mBegin < q.mtime /\ q.mtime <= mEnd}}
          \cup {TombRec(t) : t \in {q \in rm : mBegin < q.mtime /\ q.mtime <= mEnd}})

\* ------------------------------------------------------- notification planner

Uuids(rows) == [i \in 1 .. Len(rows) |-> rows[i].uuid]

\* <rows with start <= s> ORDER BY start DESC LIMIT 2
UpTo2(tl, s) ==
  LET le == {r \in tl : r.start <= s}
      a  == {r \in le : \A q \in le : q.start <= r.start}
      b  == {r \in le \ a : \A q \in le \ a : q.start <= r.start}
  IN a \cup b
Before1(tl, s) == {r \in tl : {r.start} = PrevStart(tl, s)}
After1(tl, s) == {r \in tl : {r.start} = NextStart(tl, s)}

\* getHistory of the window, ORDER BY start ASC; nothing is emitted for an
\* empty window.
notifyUpdates(w, window, fields) ==
  IF window = {} THEN w
  ELSE emit(w, Ev("dataUpdated", Uuids(ByStart(window)), 0, {}, fields))

notifyInsertUpdates(w, data) ==
  notifyUpdates(w, UpTo2(w.tl, data.start) \cup After1(w.tl, data.start),
                {DurationTime, PrecedingStart})

notifyRemoveUpdates(w, data) ==
  notifyUpdates(w, Before1(w.tl, data.start) \cup After1(w.tl, data.start),
                {DurationTime, PrecedingStart})

notifyEditUpdates(w, data, fields, oldStart) ==
  IF StartTime \in fields
    THEN notifyUpdates(w, UpTo2(w.tl, data.start) \cup After1(w.tl, data.start)
                          \cup Before1(w.tl, oldStart) \cup After1(w.tl, oldStart),
                       fields \cup {DurationTime, PrecedingStart})
    ELSE notifyUpdates(w, {r \in w.tl : r.start = data.start}, fields)


\* ------------------------------------------------------------------- writes

MTimeOf(data, now) == IF data.mtime # NoMTime THEN data.mtime ELSE now

\* A statement whose prepare() or exec() fails: the error signal, and false
\* to the caller.
Failed(w) == emit([w EXCEPT !.ok = FALSE, !.wfail = TRUE], Sig("error"))

\* The statement has run and left the tables of r.
Written(w, r) == [w EXCEPT !.tl = r.tl, !.rm = r.rm, !.ok = TRUE]

\* A failed Q_ASSERT on an argument.
Asserted(w, holds) == [w EXCEPT !.bad = @ \/ ~holds]

\* insertData after its INSERT, whose result is r.
insertDataExec(w, r, data) ==
  IF ~r.ok THEN Failed(w)
  ELSE addToCategories(setSize(Written(w, r), w.size + r.n), data.category)

insertData(w, data, now) ==
  insertDataExec(Asserted(w, isValid(data)),
                 InsertStmt(w.tl, w.rm, data, MTimeOf(data, now)), data)

\* removeData after its INSERT OR REPLACE, whose result is r.
removeDataExec(w, r) ==
  IF ~r.ok THEN Failed(w)
  ELSE setSize(Written(w, r), w.size - r.n)

removeData(w, data, now) ==
  removeDataExec(Asserted(w, data.uuid # NullUuid),
                 RemoveStmt(w.tl, w.rm, data.uuid, MTimeOf(data, now)))

\* editData after its UPDATE, whose result is r; with no field the statement
\* is "SET , mtime=?" and prepare() fails.
editDataExec(w, r, data, fields) ==
  IF fields = NoFields \/ ~r.ok THEN Failed(w)
  ELSE IF Category \in fields THEN addToCategories(Written(w, r), data.category)
  ELSE Written(w, r)

editData(w, data, fields, now) ==
  editDataExec(Asserted(w, isValid(data) /\ fields # NoFields),
               UpdateStmt(w.tl, w.rm, data, fields, MTimeOf(data, now)),
               data, fields)

editCategoryData(w, oldName, newName, now) ==
  IF {r \in w.tl : r.category = oldName} = {}
    THEN [removeFromCategories(w, oldName) EXCEPT !.ok = FALSE]
    ELSE updateCategories(
           Written(w, UpdateCategoryStmt(w.tl, w.rm, oldName, newName, now)))

\* The loops of a transaction: no write follows one that has failed.
RECURSIVE InsertEach(_, _, _)
InsertEach(w, data, now) ==
  IF data = <<>> \/ ~w.ok THEN w
  ELSE InsertEach(insertData(w, Head(data), now), Tail(data), now)

RECURSIVE RemoveEach(_, _, _)
RemoveEach(w, data, now) ==
  IF data = <<>> \/ ~w.ok THEN w
  ELSE RemoveEach(removeData(w, Head(data), now), Tail(data), now)

RECURSIVE EditEach(_, _, _)
EditEach(w, data, now) ==
  IF data = <<>> \/ ~w.ok THEN w
  ELSE EditEach(editData(w, Head(data), AllFieldsMask, now), Tail(data), now)

\* db.transaction()
BeginTransaction(w) == [w EXCEPT !.ok = TRUE]

\* db.rollback() that restores nothing.
Rollback_none(w, start) == w

\* db.rollback(): the tables are those of the start of the transaction; what
\* the writes did to the in-memory state and the signals they emitted stay.
Rollback(w, start) == [w EXCEPT !.tl = start.tl, !.rm = start.rm]

\* The end of a transaction whose writes left w: commit, or rollback to the
\* tables of start.
EndTransaction(w, start) == IF w.ok THEN w ELSE Rollback(w, start)

\* insertData(QVector): one transaction around the inserts.
insertDataBatch(w, data, now) ==
  EndTransaction(InsertEach(BeginTransaction(w), data, now), w)

\* --------------------------------------------------------------------- sync

\* LocalWins with a tie going to the peer.
LocalWins_later(tl, rm, entry) ==
  LET affected == getSyncAffected(tl, rm, entry.uuid)
  IN affected # <<>> /\ affected[1].mtime > entry.mtime

\* The peer record loses: a local record exists with an mtime not earlier.
LocalWins(tl, rm, entry) ==
  LET affected == getSyncAffected(tl, rm, entry.uuid)
  IN affected # <<>> /\ affected[1].mtime >= entry.mtime

LocalOrEmpty(tl, rm, uuid) ==
  LET affected == getSyncAffected(tl, rm, uuid)
  IN IF affected = <<>> THEN DefaultEntry ELSE affected[1]

\* IsInsert without its test of affected.constFirst().isValid().
IsInsert_absent(tl, rm, entry) == getSyncAffected(tl, rm, entry.uuid) = <<>>

\* No local record, or a tombstone: the record is an insert, else an update.
IsInsert(tl, rm, entry) ==
  LET affected == getSyncAffected(tl, rm, entry.uuid)
  IN affected = <<>> \/ ~isValid(affected[1])

\* The local counterparts of the records of seq.
OldOf(tl, rm, seq) == [i \in 1 .. Len(seq) |-> LocalOrEmpty(tl, rm, seq[i].uuid)]

\* The six lists of syncStatsAvailable, from the state before the merge.
Classify(tl, rm, updatedData, removedData) ==
  LET removedNew == SelectSeq(removedData, LAMBDA e : ~LocalWins(tl, rm, e))
      insertedNew == SelectSeq(updatedData,
                       LAMBDA e : ~LocalWins(tl, rm, e) /\ IsInsert(tl, rm, e))
      updatedNew == SelectSeq(updatedData,
                       LAMBDA e : ~LocalWins(tl, rm, e) /\ ~IsInsert(tl, rm, e))
  IN [removedOld |-> OldOf(tl, rm, removedNew), removedNew |-> removedNew,
      insertedOld |-> OldOf(tl, rm, insertedNew), insertedNew |-> insertedNew,
      updatedOld |-> OldOf(tl, rm, updatedNew), updatedNew |-> updatedNew]

\* removedMerged[i]: the local record with the peer's uuid and mTime.
Merged(c) ==
  [i \in 1 .. Len(c.removedNew) |->
     [c.removedOld[i] EXCEPT !.uuid = c.removedNew[i].uuid,
                             !.mtime = c.removedNew[i].mtime]]

FieldsChanged(new, old) ==
  (IF new.start # old.start THEN {StartTime} ELSE {})
  \cup (IF new.category # old.category THEN {Category} ELSE {})
  \cup (IF new.comment # old.comment THEN {Comment} ELSE {})

\* The writes of syncData, in one transaction.
syncWrites(w, removed, inserted, updatedNew, now) ==
  EndTransaction(
    EditEach(InsertEach(RemoveEach(BeginTransaction(w), removed, now),
                        inserted, now),
             updatedNew, now),
    w)

\* The loops of syncData after the commit, one signal for each entry.
RECURSIVE emitRemovedEach(_, _)
emitRemovedEach(w, removed) ==
  IF removed = <<>> THEN w
  ELSE emitRemovedEach(
         IF isValid(Head(removed))
           THEN emit(w, Ev("dataRemoved", <<Head(removed).uuid>>, 0, {}, {}))
           ELSE w,
         Tail(removed))

RECURSIVE notifyRemoveUpdatesEach(_, _)
notifyRemoveUpdatesEach(w, removed) ==
  IF removed = <<>> THEN w
  ELSE notifyRemoveUpdatesEach(
         IF isValid(Head(removed)) THEN notifyRemoveUpdates(w, Head(removed))
         ELSE w,
         Tail(removed))

RECURSIVE emitInsertedEach(_, _)
emitInsertedEach(w, inserted) ==
  IF inserted = <<>> THEN w
  ELSE emitInsertedEach(
         emit(w, Ev("dataInserted", <<Head(inserted).uuid>>, 0, {}, {})),
         Tail(inserted))

RECURSIVE notifyInsertUpdatesEach(_, _)
notifyInsertUpdatesEach(w, inserted) ==
  IF inserted = <<>> THEN w
  ELSE notifyInsertUpdatesEach(notifyInsertUpdates(w, Head(inserted)),
                               Tail(inserted))

RECURSIVE notifyEditUpdatesEach(_, _, _)
notifyEditUpdatesEach(w, updatedNew, updatedOld) ==
  IF updatedNew = <<>> THEN w
  ELSE notifyEditUpdatesEach(
         notifyEditUpdates(w, Head(updatedNew),
                           FieldsChanged(Head(updatedNew), Head(updatedOld)),
                           Head(updatedOld).start),
         Tail(updatedNew), Tail(updatedOld))

\* syncNotify with the signals of the inserted before those of the removed.
syncNotify_insertedFirst(w, removed, inserted, updatedNew, updatedOld) ==
  notifyEditUpdatesEach(
    notifyRemoveUpdatesEach(
      emitRemovedEach(
        notifyInsertUpdatesEach(emitInsertedEach(w, inserted), inserted),
        removed),
      removed),
    updatedNew, updatedOld)

\* The signals of syncData after the commit.
syncNotify(w, removed, inserted, updatedNew, updatedOld) ==
  notifyEditUpdatesEach(
    notifyInsertUpdatesEach(
      emitInsertedEach(
        notifyRemoveUpdatesEach(emitRemovedEach(w, removed), removed),
        inserted),
      inserted),
    updatedNew, updatedOld)

\* syncData after its transaction, which left w.
syncDataExec(w, removed, inserted, updatedNew, updatedOld) ==
  IF w.ok THEN syncNotify(w, removed, inserted, updatedNew, updatedOld) ELSE w

syncData(w, removed, inserted, updatedNew, updatedOld, now) ==
  syncDataExec(syncWrites(w, removed, inserted, updatedNew, now),
               removed, inserted, updatedNew, updatedOld)

\* sync after syncData, which left w.
syncExec(w) == IF w.ok THEN emit(w, Sig("dataSynced")) ELSE w

\* syncStatsAvailable(removedOld, removedNew, insertedOld, insertedNew,
\* updatedOld, updatedNew)
SyncStats(c) ==
  [type |-> "syncStatsAvailable",
   removedOld |-> c.removedOld, removedNew |-> c.removedNew,
   insertedOld |-> c.insertedOld, insertedNew |-> c.insertedNew,
   updatedOld |-> c.updatedOld, updatedNew |-> c.updatedNew]

\* sync with the lists c of its classification.
syncClassified(w, c, now) ==
  syncExec(syncData(emit(w, SyncStats(c)), Merged(c), c.insertedNew,
                    c.updatedNew, c.updatedOld, now))

sync(w, updatedData, removedData, now) ==
  syncClassified(w, Classify(w.tl, w.rm, updatedData, removedData), now)

\* ----------------------------------------------------------------- commands

Frame(type, data, fields) == [type |-> type, data |-> data, fields |-> fields]

\* insertEntry after insertData, which left w.
insertEntryExec(w, data) ==
  IF w.ok
    THEN notifyInsertUpdates(emit(w, Ev("dataInserted", <<data.uuid>>, 0, {}, {})),
                             data)
    ELSE processFail(w)

insertEntry(w, data, now) == insertEntryExec(insertData(w, data, now), data)

\* removeEntry after removeData, which left w.
removeEntryExec(w, data) ==
  IF w.ok
    THEN notifyRemoveUpdates(emit(w, Ev("dataRemoved", <<data.uuid>>, 0, {}, {})),
                             data)
    ELSE processFail(w)

removeEntry(w, data, now) == removeEntryExec(removeData(w, data, now), data)

\* editEntry after editData, which left w.
editEntryExec(w, data, fields, oldStart) ==
  IF w.ok THEN notifyEditUpdates(w, data, fields, oldStart)
  ELSE [processFail(w) EXCEPT !.ok = FALSE]

\* The result has ok = FALSE where editEntry returns false.
editEntry(w, data, fields, now) ==
  IF fields = NoFields THEN [w EXCEPT !.ok = FALSE]
  ELSE IF StartTime \in fields /\ ~isValid(getEntry(w, data.uuid))
    THEN [processFail(w) EXCEPT !.ok = FALSE]
  ELSE editEntryExec(editData(w, data, fields, now), data, fields,
                     IF StartTime \in fields THEN getEntry(w, data.uuid).start
                     ELSE InvalidStart)

\* editEntries that ends after its first editEntry.
editEntries_first(w, data, fields, now) ==
  IF data = <<>> THEN w ELSE editEntry(w, Head(data), Head(fields), now)

\* The loop ends at the first editEntry that returns false.
RECURSIVE editEntries(_, _, _, _)
editEntries(w, data, fields, now) ==
  IF data = <<>> \/ ~w.ok THEN w
  ELSE editEntries(editEntry(w, Head(data), Head(fields), now),
                   Tail(data), Tail(fields), now)

insert(w, data, now) ==
  insertEntry(pushUndo(w, Frame("Insert", <<data>>, <<>>)), data, now)

\* import after insertData(QVector), which left w.
importExec(w, data) ==
  IF w.ok THEN emit(w, Ev("dataImported", Uuids(data), 0, {}, {}))
  ELSE processFail(w)

import(w, data, now) == importExec(insertDataBatch(w, data, now), data)

remove(w, data, now) ==
  removeEntry(pushUndo(w, Frame("Remove", <<getEntry(w, data.uuid)>>, <<>>)),
              data, now)

edit(w, data, fields, now) ==
  editEntry(pushUndo(w, Frame("Edit", <<getEntry(w, data.uuid)>>, <<fields>>)),
            data, fields, now)

\* editCategory after editCategoryData, which left w.
editCategoryExec(w) ==
  IF w.ok THEN emit(w, Sig("dataOutdated")) ELSE processFail(w)

editCategory(w, oldName, newName, now) ==
  IF newName = NoCategory THEN emit(w, Sig("error"))
  ELSE IF oldName = newName THEN w
  ELSE editCategoryExec(
         editCategoryData(
           pushUndo(w, Frame("EditCategory", getEntries(w, oldName),
                             [i \in 1 .. Len(getEntries(w, oldName)) |-> {Category}])),
           oldName, newName, now))

\* undo after the replay of the popped frame, which left w.
\* undo without its last emit undoCountChanged.
undoExec_silent(w) == w

undoExec(w) == emit(w, Ev("undoCountChanged", <<>>, Len(w.undo), {}, {}))

\* The replay of the frame top by the worker w, the frame popped.
undoFrame(w, top, now) ==
  CASE top.type = "Insert" -> removeEntry(w, top.data[1], now)
    [] top.type = "Remove" -> insertEntry(w, top.data[1], now)
    [] top.type = "Edit" -> editEntry(w, top.data[1], top.fields[1], now)
    [] OTHER -> editEntries(w, top.data, top.fields, now)

\* undo that reads the top frame and leaves it on the stack.
undo_keepTop(w, now) ==
  IF w.undo = <<>> THEN w
  ELSE undoExec(undoFrame(w, w.undo[Len(w.undo)], now))

undo(w, now) ==
  IF w.undo = <<>> THEN w
  ELSE undoExec(undoFrame([w EXCEPT !.undo = SubSeq(@, 1, Len(@) - 1)],
                          w.undo[Len(w.undo)], now))

\* ------------------------------------------------------------ state machine

VARIABLES
  timelog,        \* the rows of table timelog
  removed,        \* the rows of table removed (the tombstones)
  m_size,         \* TimeLogHistoryWorker::m_size
  m_categories,   \* TimeLogHistoryWorker::m_categories
  m_undoStack,    \* TimeLogHistoryWorker::m_undoStack, the top last
  now,            \* QDateTime::currentMSecsSinceEpoch()
  events,         \* the signals the last command emitted, in order
  last,           \* the last command: its name, arguments and outcome
  crashed,        \* a violated Q_ASSERT has aborted the process
  connected,      \* the signals the observer is connected to
  cmds,           \* the commands handled since init(), undo() not counted
  restarts,       \* the times a new worker was constructed on the database
  pre,            \* history: the state at the start of the last command
  before,         \* history: the state at the start of the command before it
  peer            \* a second replica: its tables, commands and syncs so far

vars == <<timelog, removed, m_size, m_categories, m_undoStack, now, events,
          last, crashed, connected, cmds, restarts, pre, before, peer>>

\* The worker at the start of a command.
W ==
  [tl |-> timelog, rm |-> removed, size |-> m_size, cats |-> m_categories,
   undo |-> m_undoStack, ev |-> <<>>, ok |-> TRUE, wfail |-> FALSE, bad |-> FALSE,
   observe |-> connected]

\* What the commands are called with.
SeqsUpTo(S, n) == UNION {[1 .. k -> S] : k \in 0 .. n}
Entries ==
  {Entry(u, s, c, k) : u \in UUIDs, s \in Starts, c \in Categories, k \in Comments}
Records ==
  {SyncRec(e.uuid, e.start, e.category, e.comment, m) : e \in Entries, m \in MTimes}
Removals ==
  {SyncRec(u, EpochStart, NoCategory, NoComment, m) : u \in UUIDs, m \in MTimes}
Masks == SUBSET AllFieldsMask

\* A call: the name of the command and its arguments.  data holds the entry
\* or the batch of entries, frame the frame undo() pops.
NoFrame == [type |-> "None", data |-> <<>>, fields |-> <<>>]
Call(op, data, removedData, fields, oldName, newName, frame) ==
  [op |-> op, data |-> data, removedData |-> removedData, fields |-> fields,
   oldName |-> oldName, newName |-> newName, frame |-> frame]

\* The record of a command: the call and its outcome (ok: the result of its
\* last call; wfail: a write statement failed; bad: a Q_ASSERT on an argument
\* was violated).
Command(c, w) ==
  [op |-> c.op, data |-> c.data, removedData |-> c.removedData,
   fields |-> c.fields, oldName |-> c.oldName, newName |-> c.newName,
   frame |-> c.frame, ok |-> w.ok, wfail |-> w.wfail, bad |-> w.bad]

\* The tables and the in-memory state at the start of the command.
Snapshot ==
  [tl |-> timelog, rm |-> removed, size |-> m_size, cats |-> m_categories,
   undo |-> m_undoStack, now |-> now]

\* What the call c leaves of the replica, w being the worker at its end.
Left(w, c) ==
  /\ timelog' = w.tl
  /\ removed' = w.rm
  /\ m_size' = w.size
  /\ m_categories' = w.cats
  /\ m_undoStack' = w.undo
  /\ events' = w.ev
  /\ last' = Command(c, w)
  /\ pre' = Snapshot
  /\ before' = pre

\* The state the call c leaves.
Done(w, c) == Left(w, c) /\ UNCHANGED <<now, connected, restarts, peer>>

\* A session handles at most MaxCmds commands, and any number of undo().
Ready == ~crashed /\ cmds < MaxCmds

Insert(data) ==
  /\ Ready
  /\ Done(insert(W, data, now), Call("insert", <<data>>, <<>>, {}, "", "", NoFrame))
  /\ cmds' = cmds + 1
  /\ UNCHANGED crashed

Import(data) ==
  /\ Ready
  /\ Done(import(W, data, now), Call("import", data, <<>>, {}, "", "", NoFrame))
  /\ cmds' = cmds + 1
  /\ UNCHANGED crashed

Remove(data) ==
  /\ Ready
  /\ Done(remove(W, data, now), Call("remove", <<data>>, <<>>, {}, "", "", NoFrame))
  /\ cmds' = cmds + 1
  /\ UNCHANGED crashed

Edit(data, fields) ==
  /\ Ready
  /\ Done(edit(W, data, fields, now),
          Call("edit", <<data>>, <<>>, fields, "", "", NoFrame))
  /\ cmds' = cmds + 1
  /\ UNCHANGED crashed

EditCategory(oldName, newName) ==
  /\ Ready
  /\ Done(editCategory(W, oldName, newName, now),
          Call("editCategory", <<>>, <<>>, {}, oldName, newName, NoFrame))
  /\ cmds' = cmds + 1
  /\ UNCHANGED crashed

Sync(updatedData, removedData) ==
  /\ Ready
  /\ Done(sync(W, updatedData, removedData, now),
          Call("sync", updatedData, removedData, {}, "", "", NoFrame))
  /\ cmds' = cmds + 1
  /\ UNCHANGED crashed

\* The frame undo() pops.
Top == IF m_undoStack = <<>> THEN NoFrame ELSE m_undoStack[Len(m_undoStack)]

\* A violated Q_ASSERT has aborted the call c.
Aborted(w, c) ==
  /\ w.bad
  /\ crashed' = TRUE
  /\ last' = Command(c, w)
  /\ pre' = Snapshot
  /\ before' = pre
  /\ events' = <<>>
  /\ UNCHANGED <<timelog, removed, m_size, m_categories, m_undoStack, now,
                 connected, restarts, peer>>

\* undo().  A replayed snapshot that violates a Q_ASSERT aborts the process
\* in a build with assertions and goes on in a build without.
Undo ==
  /\ ~crashed
  /\ \/ /\ Done(undo(W, now), Call("undo", <<>>, <<>>, {}, "", "", Top))
        /\ UNCHANGED crashed
     \/ Aborted(undo(W, now), Call("undo", <<>>, <<>>, {}, "", "", Top))
  /\ UNCHANGED cmds

\* Time passes before the first command of a session, or between a command
\* and the undo() that takes it back.
Tick ==
  /\ ~crashed
  /\ \/ cmds = 0 /\ last.op = "init"
     \/ /\ last.op \in {"insert", "remove", "edit", "editCategory"}
        /\ m_undoStack # <<>>
  /\ now < MaxMTime
  /\ now' = now + 1
  /\ UNCHANGED <<timelog, removed, m_size, m_categories, m_undoStack, events,
                 last, pre, before, crashed, connected, cmds, restarts, peer>>

\* The state after init(), w being the new worker.
Started(w) ==
  /\ timelog' = w.tl
  /\ removed' = w.rm
  /\ m_size' = w.size
  /\ m_categories' = w.cats
  /\ m_undoStack' = w.undo
  /\ events' = w.ev
  /\ last' = Command(Call("init", <<>>, <<>>, {}, "", "", NoFrame), w)
  \* the new worker has no earlier state: the snapshot is its first
  /\ pre' = [tl |-> w.tl, rm |-> w.rm, size |-> w.size, cats |-> w.cats,
             undo |-> w.undo, now |-> now]
  /\ before' = pre'

\* The process ends and a new worker is constructed on the same database
\* file: init() reads the size and the categories, the undo stack is empty.
Restart ==
  /\ restarts < MaxRestarts
  /\ restarts' = restarts + 1
  /\ Started(updateCategories(updateSize(
       [W EXCEPT !.size = 0, !.cats = {}, !.undo = <<>>])))
  /\ crashed' = FALSE
  /\ cmds' = 0
  /\ UNCHANGED <<now, connected, peer>>

NoPeer == [tl |-> {}, rm |-> {}, cmds |-> 0, synced |-> {}]

Init ==
  /\ timelog = {}
  /\ removed = {}
  /\ m_size = 0
  /\ m_categories = {}
  /\ m_undoStack = <<>>
  /\ now = 1
  /\ events = <<>>
  /\ crashed = FALSE
  /\ connected = {"error", "dataOutdated"}
  /\ cmds = 0
  /\ restarts = 0
  /\ peer = NoPeer
  /\ last = Command(Call("init", <<>>, <<>>, {}, "", "", NoFrame), W)
  /\ pre = Snapshot
  /\ before = Snapshot

Next ==
  \/ \E data \in Entries : Insert(data)
  \/ \E data \in SeqsUpTo(Entries, MaxBatch) : Import(data)
  \/ \E data \in Entries : Remove(data)
  \/ \E data \in Entries, fields \in Masks : Edit(data, fields)
  \/ \E oldName \in Categories, newName \in Categories \cup {NoCategory} :
       EditCategory(oldName, newName)
  \/ \E updatedData \in SeqsUpTo(Records, 1), removedData \in SeqsUpTo(Removals, 1) :
       Sync(updatedData, removedData)
  \/ Undo
  \/ Tick
  \/ Restart

Spec == Init /\ [][Next]_vars

\* ------------------------------------------------- sync with a peer's records
\* The records of a peer, whose clock may be ahead of the local one.

PeerMTimes == 1 .. MaxMTime + 1
PeerRecords ==
  {SyncRec(e.uuid, e.start, e.category, e.comment, m) : e \in Entries, m \in PeerMTimes}
PeerRemovals ==
  {SyncRec(u, EpochStart, NoCategory, NoComment, m) : u \in UUIDs, m \in PeerMTimes}

\* The batch of a committed sync arrives a second time.
Resync ==
  /\ ~crashed
  /\ last.op = "sync" /\ last.ok
  /\ Done(sync(W, last.data, last.removedData, now),
          Call("resync", last.data, last.removedData, {}, "", "", NoFrame))
  /\ UNCHANGED <<crashed, cmds>>

NextSync ==
  \/ \E updatedData \in SeqsUpTo(PeerRecords, 1),
        removedData \in SeqsUpTo(PeerRemovals, 1) : Sync(updatedData, removedData)
  \/ Resync
  \/ Restart

SpecSync == Init /\ [][NextSync]_vars

\* ---------------------------------------------------------------- two replicas
\* The second replica runs the same worker on its own database; of its state
\* the model keeps the tables.  After the local commands of both, each
\* replica syncs the full getSyncData output of the other.

\* The worker of the second replica at the start of a command.
PeerW ==
  [tl |-> peer.tl, rm |-> peer.rm, size |-> Cardinality(peer.tl),
   cats |-> {r.category : r \in peer.tl}, undo |-> <<>>, ev |-> <<>>, ok |-> TRUE,
   wfail |-> FALSE, bad |-> FALSE, observe |-> {}]

\* The state the second replica's worker w leaves.
PeerDone(w) ==
  /\ peer' = [peer EXCEPT !.tl = w.tl, !.rm = w.rm, !.cmds = @ + 1]
  /\ UNCHANGED <<timelog, removed, m_size, m_categories, m_undoStack, now, events,
                 last, crashed, connected, cmds, restarts, pre, before>>

Writing == peer.synced = {}

LocalInsert(data) == Writing /\ Insert(data)
LocalRemove(data) == Writing /\ Remove(data)
LocalEdit(data, fields) == Writing /\ Edit(data, fields)

PeerInsert(data) ==
  Writing /\ peer.cmds < MaxCmds /\ PeerDone(insert(PeerW, data, now))
PeerRemove(data) ==
  Writing /\ peer.cmds < MaxCmds /\ PeerDone(remove(PeerW, data, now))
PeerEdit(data, fields) ==
  Writing /\ peer.cmds < MaxCmds /\ PeerDone(edit(PeerW, data, fields, now))

\* The updatedData and the removedData of a getSyncData output: its entries
\* and its tombstones.
UpdatedOf(records) == SelectSeq(records, isValid)
RemovedOf(records) == SelectSeq(records, LAMBDA e : ~isValid(e))

\* The whole range of getSyncData.
AllOf(tl, rm) == getSyncData(tl, rm, 0, MaxMTime + 1)

\* The second replica syncs the output of the first.
SyncToPeer ==
  /\ "AB" \notin peer.synced
  /\ LET w == sync(PeerW, UpdatedOf(AllOf(timelog, removed)),
                   RemovedOf(AllOf(timelog, removed)), now)
     IN peer' = [peer EXCEPT !.tl = w.tl, !.rm = w.rm, !.synced = @ \cup {"AB"}]
  /\ UNCHANGED <<timelog, removed, m_size, m_categories, m_undoStack, now, events,
                 last, crashed, connected, cmds, restarts, pre, before>>

\* The first replica syncs the output of the second.
SyncFromPeer ==
  /\ "BA" \notin peer.synced
  /\ Left(sync(W, UpdatedOf(AllOf(peer.tl, peer.rm)),
               RemovedOf(AllOf(peer.tl, peer.rm)), now),
          Call("sync", UpdatedOf(AllOf(peer.tl, peer.rm)),
               RemovedOf(AllOf(peer.tl, peer.rm)), {}, "", "", NoFrame))
  /\ peer' = [peer EXCEPT !.synced = @ \cup {"BA"}]
  /\ UNCHANGED <<now, connected, restarts, crashed, cmds>>

NextReplicas ==
  \/ \E data \in Entries : LocalInsert(data)
  \/ \E data \in Entries : LocalRemove(data)
  \/ \E data \in Entries, fields \in Masks : LocalEdit(data, fields)
  \/ \E data \in Entries : PeerInsert(data)
  \/ \E data \in Entries : PeerRemove(data)
  \/ \E data \in Entries, fields \in Masks : PeerEdit(data, fields)
  \/ SyncToPeer
  \/ SyncFromPeer

SpecReplicas == Init /\ [][NextReplicas]_vars

\* ------------------------------------------------------ tables of three rows
\* The commands, and in the first session imports of batches that may have
\* an entry of a third uuid, at a start after those of the commands: the
\* commands of the next session then act on a table with a row between two
\* others, put a row between two others, or move a row of three to the start
\* that is free.

LastUuid == "u3"
LastStart == MaxStart + 1
RowUUIDs == UUIDs \cup {LastUuid}
RowEntries ==
  Entries \cup {Entry(LastUuid, LastStart, c, k) : c \in Categories, k \in Comments}

NextRows ==
  \/ Next
  \/ /\ restarts = 0
     /\ \E data \in SeqsUpTo(RowEntries, Cardinality(RowUUIDs)) : Import(data)

SpecRows == Init /\ [][NextRows]_vars

\* ------------------------------------------------------ a long undo stack
\* One session of more commands than the undo stack holds: insert and edit
\* of one entry, under an observer of undoCountChanged.

MaxPushes == 12
StackEntries == {Entry("u1", 1, c, k) : c \in Categories, k \in Comments}

Pushing == ~crashed /\ cmds < MaxPushes

StackInsert(data) ==
  /\ Pushing
  /\ Done(insert(W, data, now), Call("insert", <<data>>, <<>>, {}, "", "", NoFrame))
  /\ cmds' = cmds + 1
  /\ UNCHANGED crashed

StackEdit(data, fields) ==
  /\ Pushing
  /\ Done(edit(W, data, fields, now),
          Call("edit", <<data>>, <<>>, fields, "", "", NoFrame))
  /\ cmds' = cmds + 1
  /\ UNCHANGED crashed

InitStack ==
  /\ timelog = {}
  /\ removed = {}
  /\ m_size = 0
  /\ m_categories = {}
  /\ m_undoStack = <<>>
  /\ now = 1
  /\ events = <<>>
  /\ crashed = FALSE
  /\ connected = {"error", "undoCountChanged"}
  /\ cmds = 0
  /\ restarts = 0
  /\ peer = NoPeer
  /\ last = Command(Call("init", <<>>, <<>>, {}, "", "", NoFrame), W)
  /\ pre = Snapshot
  /\ before = Snapshot

NextStack ==
  \/ \E data \in StackEntries : StackInsert(data)
  \/ \E data \in StackEntries : StackEdit(data, {Category})

SpecStack == InitStack /\ [][NextStack]_vars

\* ------------------------------------------------- an observer of the inserts
\* The commands that write rows and tombstones, under an observer of error
\* and dataInserted.

InitInserts ==
  /\ timelog = {}
  /\ removed = {}
  /\ m_size = 0
  /\ m_categories = {}
  /\ m_undoStack = <<>>
  /\ now = 1
  /\ events = <<>>
  /\ crashed = FALSE
  /\ connected = {"error", "dataInserted"}
  /\ cmds = 0
  /\ restarts = 0
  /\ peer = NoPeer
  /\ last = Command(Call("init", <<>>, <<>>, {}, "", "", NoFrame), W)
  /\ pre = Snapshot
  /\ before = Snapshot

NextInserts ==
  \/ \E data \in Entries : Insert(data)
  \/ \E data \in Entries : Remove(data)
  \/ \E updatedData \in SeqsUpTo(Records, 1), removedData \in SeqsUpTo(Removals, 1) :
       Sync(updatedData, removedData)
  \/ Undo
  \/ Tick
  \/ Restart

SpecInserts == InitInserts /\ [][NextInserts]_vars

\* ------------------------------------------------- an observer of every signal
\* The commands of Spec under an observer connected to every signal of the
\* worker, so that events holds all that a command emits, in order.

Signals ==
  {"error", "dataOutdated", "dataInserted", "dataImported", "dataRemoved",
   "dataUpdated", "dataSynced", "syncStatsAvailable", "sizeChanged",
   "categoriesChanged", "undoCountChanged"}

InitEvents ==
  /\ timelog = {}
  /\ removed = {}
  /\ m_size = 0
  /\ m_categories = {}
  /\ m_undoStack = <<>>
  /\ now = 1
  /\ events = <<>>
  /\ crashed = FALSE
  /\ connected = Signals
  /\ cmds = 0
  /\ restarts = 0
  /\ peer = NoPeer
  /\ last = Command(Call("init", <<>>, <<>>, {}, "", "", NoFrame), W)
  /\ pre = Snapshot
  /\ before = Snapshot

SpecEvents == InitEvents /\ [][Next]_vars

\* ------------------------------------------------- syncs of several records
\* The first session imports up to three rows; the second syncs a batch of
\* up to MaxBatch updates and MaxBatch removals of a peer whose clock is
\* ahead, under an observer of every signal: the sync removes, inserts and
\* updates several rows that have neighbours.

AheadRecords ==
  {SyncRec(e.uuid, e.start, e.category, e.comment, MaxMTime + 1) : e \in Entries}
AheadRemovals ==
  {SyncRec(u, EpochStart, NoCategory, NoComment, MaxMTime + 1) : u \in RowUUIDs}

NextBatches ==
  \/ /\ restarts = 0 /\ Ready
     /\ \E data \in SeqsUpTo(RowEntries, Cardinality(RowUUIDs)) : Import(data)
  \/ /\ restarts = MaxRestarts /\ Ready
     /\ \E updatedData \in SeqsUpTo(AheadRecords, MaxBatch),
           removedData \in SeqsUpTo(AheadRemovals, MaxBatch) :
          Sync(updatedData, removedData)
  \/ Restart

SpecBatches == InitEvents /\ [][NextBatches]_vars

\* ------------------------------------------------- syncs over earlier syncs
\* The first session syncs a record and a removal of a peer, which leave rows
\* and tombstones of every mtime; the second syncs a batch of up to MaxBatch
\* updates and MaxBatch removals written at the time MaxMTime, under an
\* observer of every signal: its records meet no local record, a tombstone
\* or a live row, of an earlier, the same or a later mtime.

MidRecords ==
  {SyncRec(e.uuid, e.start, e.category, e.comment, MaxMTime) : e \in Entries}
MidRemovals ==
  {SyncRec(u, EpochStart, NoCategory, NoComment, MaxMTime) : u \in UUIDs}

NextLists ==
  \/ /\ restarts = 0 /\ Ready
     /\ \E updatedData \in SeqsUpTo(PeerRecords, 1),
           removedData \in SeqsUpTo(PeerRemovals, 1) :
          Sync(updatedData, removedData)
  \/ /\ restarts = MaxRestarts /\ Ready
     /\ \E updatedData \in SeqsUpTo(MidRecords, MaxBatch),
           removedData \in SeqsUpTo(MidRemovals, MaxBatch) :
          Sync(updatedData, removedData)
  \/ Restart

SpecLists == InitEvents /\ [][NextLists]_vars

\* ------------------------------------------------- undo after several commands
\* One session of up to MaxUndos commands insert, remove and edit, and any
\* number of undo(), under an observer of every signal: undo() meets a stack
\* of more than one frame.

MaxUndos == 3

Stacking == ~crashed /\ cmds < MaxUndos

NextInsert(data) ==
  /\ Stacking
  /\ Done(insert(W, data, now), Call("insert", <<data>>, <<>>, {}, "", "", NoFrame))
  /\ cmds' = cmds + 1
  /\ UNCHANGED crashed

NextRemove(data) ==
  /\ Stacking
  /\ Done(remove(W, data, now), Call("remove", <<data>>, <<>>, {}, "", "", NoFrame))
  /\ cmds' = cmds + 1
  /\ UNCHANGED crashed

NextEdit(data, fields) ==
  /\ Stacking
  /\ Done(edit(W, data, fields, now),
          Call("edit", <<data>>, <<>>, fields, "", "", NoFrame))
  /\ cmds' = cmds + 1
  /\ UNCHANGED crashed

NextUndos ==
  \/ \E data \in Entries : NextInsert(data)
  \/ \E data \in Entries : NextRemove(data)
  \/ \E data \in Entries, fields \in Masks : NextEdit(data, fields)
  \/ Undo

SpecUndos == InitEvents /\ [][NextUndos]_vars

\* --------------------------------------------------------------- statistics
\* getStats on a table whose categories are paths of segments.  The SQL text
\* functions act on the strings; a value that may be NULL is the set of at
\* most one value that it is.

\* instr(X, Y): the position of the first occurrence of Y in X, 0 for none.
instr(X, Y) ==
  LET at == {i \in 1 .. Len(X) - Len(Y) + 1 : SubSeq(X, i, i + Len(Y) - 1) = Y}
  IN IF at = {} THEN 0 ELSE Min(at)

\* substr(X, Y): the rest of X from position Y.
substrFrom(X, Y) == IF Y > Len(X) THEN "" ELSE SubSeq(X, Y, Len(X))

\* substr(X, 1, Z): the first Z characters of X.
substr(X, Z) == IF Z >= Len(X) THEN X ELSE SubSeq(X, 1, Z)

RECURSIVE rtrim(_)
rtrim(X) ==
  IF X # "" /\ SubSeq(X, Len(X), Len(X)) = " " THEN rtrim(SubSeq(X, 1, Len(X) - 1))
  ELSE X

\* X LIKE Y || '%', for texts of one case without wildcards.
LIKE(X, Y) == Len(X) >= Len(Y) /\ SubSeq(X, 1, Len(Y)) = Y

\* ifnull(V, d) of a value that may be NULL.
ifnull(V, d) == IF V = {} THEN d ELSE CHOOSE v \in V : TRUE

\* The length of the bucket label of category: the first %1 of the query.
BucketLength(category, filter, separator) ==
  IF filter = ""
    THEN ifnull({x \in {instr(category, separator) - 1} : x # -1}, Len(category))
    ELSE
      LET first == {x \in {instr(substrFrom(category, Len(filter) + 1), separator)} :
                      x # 0}
          rest == {substrFrom(category, x + 1 + Len(filter)) : x \in first}
          next == {x \in {instr(r, separator) : r \in rest} : x # 0}
      IN ifnull({x + Len(filter) : x \in next}, Len(category))

Bucket(category, filter, separator) ==
  rtrim(substr(category, BucketLength(category, filter, separator)))

\* CASE WHEN duration != -1 THEN duration ELSE <now> - <the last start> END
StatDuration(tl, r, secs) ==
  IF r.duration # -1 THEN r.duration ELSE secs - Max({q.start : q \in tl})

\* The rows of the WITH result: those of the range that the filter selects.
StatRows(tl, begin, end, filter) ==
  {r \in tl : begin <= r.start /\ r.start <= end
              /\ (filter = "" \/ LIKE(r.category, filter))}

RECURSIVE SumDuration(_, _, _)
SumDuration(tl, rows, secs) ==
  IF rows = {} THEN 0
  ELSE LET r == CHOOSE x \in rows : TRUE
       IN StatDuration(tl, r, secs) + SumDuration(tl, rows \ {r}, secs)

\* The order of the texts (ORDER BY category ASC), from that of the
\* characters the categories are written in.
Alphabet == " /2vwx"

RECURSIVE Before(_, _)
Before(X, Y) ==
  IF X = "" THEN Y # ""
  ELSE IF Y = "" THEN FALSE
  ELSE IF SubSeq(X, 1, 1) = SubSeq(Y, 1, 1)
    THEN Before(substrFrom(X, 2), substrFrom(Y, 2))
  ELSE instr(Alphabet, SubSeq(X, 1, 1)) < instr(Alphabet, SubSeq(Y, 1, 1))

RECURSIVE ByCategory(_)
ByCategory(S) ==
  IF S = {} THEN <<>>
  ELSE LET r == CHOOSE x \in S : \A y \in S \ {x} : Before(x.category, y.category)
       IN <<r>> \o ByCategory(S \ {r})

\* SELECT category, SUM(duration) FROM result GROUP BY category ORDER BY
\* category ASC, read by getStats(query).
StatsOf(tl, begin, end, filter, separator, secs) ==
  LET rows == StatRows(tl, begin, end, filter)
      labels == {Bucket(r.category, filter, separator) : r \in rows}
  IN ByCategory(
       {[category |-> l,
         durationTime |->
           SumDuration(tl, {r \in rows : Bucket(r.category, filter, separator) = l},
                       secs)] : l \in labels})

\* getStats(begin, end, category, separator) at the time secs, in seconds.
getStats(w, begin, end, category, separator, secs) ==
  emit(w, [type |-> "statsDataAvailable",
           rows |-> StatsOf(w.tl, begin, end, category, separator, secs),
           end |-> end])

\* The first session imports rows whose categories are paths; getStats is
\* then called under an observer of statsDataAvailable.
Separator == "/"
StatCategories == {"w", "w/x", "w/x/v", "w2", "v"}
StatFilters == {"", "w", "w/x"}
StatEntries ==
  {Entry(u, s, c, k) : u \in UUIDs, s \in Starts, c \in StatCategories, k \in Comments}
StatTimes == {MaxStart + 1, MaxStart + 2}

StatCall(begin, end, category, separator, secs) ==
  [op |-> "getStats", begin |-> begin, end |-> end, category |-> category,
   separator |-> separator, secs |-> secs, ok |-> TRUE, wfail |-> FALSE,
   bad |-> FALSE]

GetStats(begin, end, category, separator, secs) ==
  /\ ~crashed
  /\ events' = getStats(W, begin, end, category, separator, secs).ev
  /\ last' = StatCall(begin, end, category, separator, secs)
  /\ pre' = Snapshot
  /\ before' = pre
  /\ UNCHANGED <<timelog, removed, m_size, m_categories, m_undoStack, now,
                 crashed, connected, cmds, restarts, peer>>

InitStats ==
  /\ timelog = {}
  /\ removed = {}
  /\ m_size = 0
  /\ m_categories = {}
  /\ m_undoStack = <<>>
  /\ now = 1
  /\ events = <<>>
  /\ crashed = FALSE
  /\ connected = {"error", "statsDataAvailable"}
  /\ cmds = 0
  /\ restarts = 0
  /\ peer = NoPeer
  /\ last = Command(Call("init", <<>>, <<>>, {}, "", "", NoFrame), W)
  /\ pre = Snapshot
  /\ before = Snapshot

NextStats ==
  \/ \E data \in SeqsUpTo(StatEntries, MaxBatch) : Import(data)
  \/ \E begin \in Starts, end \in Starts, category \in StatFilters,
        secs \in StatTimes : GetStats(begin, end, category, Separator, secs)

SpecStats == InitStats /\ [][NextStats]_vars

\* ------------------------------------------------- the undo count shown
\* One session of more commands than the undo stack holds, under an observer
\* of undoCountChanged: insert, edit and remove of the entries of one uuid,
\* undo(), and the import of a row of another uuid at the same start, which
\* pushes no frame and takes the start a Remove frame would restore.  remove
\* and import come among the first MaxEarly commands of the session.

MaxEarly == 3
TakenStart == Entry("u2", 1, "a", "c")
EditTo == Entry("u1", 1, "b", "c")

StackRemove(data) ==
  /\ Pushing
  /\ Done(remove(W, data, now), Call("remove", <<data>>, <<>>, {}, "", "", NoFrame))
  /\ cmds' = cmds + 1
  /\ UNCHANGED crashed

StackImport(data) ==
  /\ Pushing
  /\ Done(import(W, data, now), Call("import", data, <<>>, {}, "", "", NoFrame))
  /\ cmds' = cmds + 1
  /\ UNCHANGED crashed

NextCounts ==
  \/ \E data \in StackEntries : StackInsert(data)
  \/ StackEdit(EditTo, {Category})
  \/ /\ cmds < MaxEarly
     /\ \E data \in StackEntries : StackRemove(data)
  \/ /\ cmds < MaxEarly
     /\ StackImport(<<TakenStart>>)
  \/ Undo

SpecCounts == InitStack /\ [][NextCounts]_vars

\* --------------------------------------------------------------- properties

Live(tl, u) == {r \in tl : r.uuid = u}
Adjacent(tl, a, b) ==
  a.start < b.start /\ ~\E c \in tl : a.start < c.start /\ c.start < b.start

\* C1: after every command, each live row that has a next live row has as its
\* duration the distance from its start to the start of that next row.
C1_AdjacentDuration ==
  \A a \in timelog, b \in timelog :
    Adjacent(timelog, a, b) => a.duration = b.start - a.start

\* C1 witness: in a table of three rows an edit has moved a row across
\* another one, and the row that was behind it before now comes after it.
C1_Witness ==
  /\ last.op = "edit" /\ last.ok /\ StartTime \in last.fields
  /\ Cardinality(timelog) = 3
  /\ \E a \in timelog, b \in timelog, o \in pre.tl :
       /\ Adjacent(timelog, a, b)
       /\ o.uuid = a.uuid /\ o.start # a.start
       /\ \E c \in pre.tl : c.uuid = b.uuid /\ c.start < o.start

\* C2: after every command, a non-empty timelog has exactly one row of
\* duration -1, the row of the greatest start, and an empty one has none.
C2_OneOpenRow ==
  LET open == {r \in timelog : r.duration = -1}
  IN /\ Cardinality(open) = (IF timelog = {} THEN 0 ELSE 1)
     /\ \A r \in open : \A q \in timelog : q.start <= r.start

\* C2 witness: a remove has deleted the last entry and another row is left,
\* which is now the open one.
C2_Witness ==
  /\ last.op = "remove" /\ last.ok
  /\ \E o \in pre.tl :
       /\ o.duration = -1 /\ o.uuid = last.data[1].uuid
       /\ Live(timelog, o.uuid) = {}
  /\ \E r \in timelog : r.duration = -1

\* C3: after every command, no uuid has both a live row and a tombstone.
C3_Disjoint ==
  {r.uuid : r \in timelog} \cap {t.uuid : t \in removed} = {}

\* C3 witness: an insert has written a live row for a uuid that had a
\* tombstone, and the tombstone is gone.
C3_Witness ==
  /\ last.op = "insert" /\ last.ok
  /\ \E t \in pre.rm :
       /\ t.uuid = last.data[1].uuid
       /\ Live(timelog, t.uuid) # {}
       /\ \A q \in removed : q.uuid # t.uuid

\* The record of uuid u a replica holds, as a set: the live row or the
\* tombstone, or nothing.
Held(tl, rm, u) == Range(getSyncAffected(tl, rm, u))

\* The records of the last batch, and those of uuid u.
Batch == Range(last.data) \cup Range(last.removedData)
BatchOf(u) == {e \in Batch : e.uuid = u}

\* The local record of e's uuid has an mtime not earlier than that of e.
LocalNotOlder(tl, rm, e) == \E r \in Held(tl, rm, e.uuid) : r.mtime >= e.mtime

\* The records the classification put in removedNew, insertedNew, updatedNew.
Classified(c) ==
  Range(c.removedNew) \cup Range(c.insertedNew) \cup Range(c.updatedNew)

\* C4 (as claimed): after a committed sync, for every uuid of the batch the
\* record the replica holds is the one of the greatest mtime among the local
\* record before the sync and the batch records of the uuid, a tie going to
\* the local record.
C4_GreatestMTimeWins ==
  (last.op = "sync" /\ last.ok) =>
    \A u \in {e.uuid : e \in Batch} :
      IF \A e \in BatchOf(u) : LocalNotOlder(pre.tl, pre.rm, e)
        THEN Held(timelog, removed, u) = Held(pre.tl, pre.rm, u)
        ELSE /\ Held(timelog, removed, u) # {}
             /\ Held(timelog, removed, u) \subseteq
                  {e \in BatchOf(u) : \A f \in BatchOf(u) : f.mtime <= e.mtime}

\* C5 (as claimed): in a sync, a record whose local record has an mtime not
\* earlier is in none of removedNew, insertedNew, updatedNew, and the local
\* record of its uuid is after the sync what it was before.
C5_SkippedUnchanged ==
  last.op = "sync" =>
    \A e \in Batch :
      LocalNotOlder(pre.tl, pre.rm, e) =>
        /\ e \notin Classified(Classify(pre.tl, pre.rm, last.data, last.removedData))
        /\ Held(timelog, removed, e.uuid) = Held(pre.tl, pre.rm, e.uuid)

\* C5 (amended): in a sync, a record whose local record has an mtime not
\* earlier is in none of removedNew, insertedNew, updatedNew; and when that
\* holds of every record of its uuid in the batch, the local record of the
\* uuid (uuid, start, category, comment, mtime) is after the sync what it was
\* before.
C5_SkippedUnchangedUnlessNewer ==
  last.op = "sync" =>
    \A e \in Batch :
      LocalNotOlder(pre.tl, pre.rm, e) =>
        /\ e \notin Classified(Classify(pre.tl, pre.rm, last.data, last.removedData))
        /\ (\A f \in BatchOf(e.uuid) : LocalNotOlder(pre.tl, pre.rm, f)) =>
             Held(timelog, removed, e.uuid) = Held(pre.tl, pre.rm, e.uuid)

\* C5 witness: a committed sync has skipped a record whose local record has
\* the same mtime, and has written the record of another uuid.
C5_Witness ==
  /\ last.op = "sync" /\ last.ok
  /\ \E e \in Batch :
       /\ \E r \in Held(pre.tl, pre.rm, e.uuid) : r.mtime = e.mtime
       /\ \A f \in BatchOf(e.uuid) : LocalNotOlder(pre.tl, pre.rm, f)
       /\ \E f \in Batch :
            f.uuid # e.uuid /\ Held(timelog, removed, f.uuid) = {f}

\* C6 (as claimed): the batch of a committed sync, synced a second time,
\* classifies nothing and leaves timelog and removed as the first sync left
\* them.
C6_Idempotent ==
  last.op = "resync" =>
    /\ Classified(Classify(pre.tl, pre.rm, last.data, last.removedData)) = {}
    /\ timelog = pre.tl
    /\ removed = pre.rm

\* C7 (as claimed): when each of two replicas has synced the full
\* getSyncData output of the other, their tables timelog and removed are the
\* same.
C7_Converged ==
  peer.synced = {"AB", "BA"} => (timelog = peer.tl /\ removed = peer.rm)

\* C8: an import or sync in which a write fails leaves timelog and removed
\* as they were before the command.
C8_AllOrNothing ==
  (last.op \in {"import", "sync"} /\ last.wfail) =>
    (timelog = pre.tl /\ removed = pre.rm)

\* C8 witness: an import has failed after a write of the batch had succeeded
\* (the size signal of that write was emitted, and the size is left raised).
C8_Witness ==
  /\ last.op = "import" /\ last.wfail /\ Len(last.data) = 2
  /\ m_size = pre.size + 1
  /\ timelog = pre.tl

\* C9 (as claimed): a command in which a write fails emits error, leaves the
\* undo stack empty and emits dataOutdated.
C9_FailurePath ==
  last.wfail =>
    /\ Emitted(events, "error")
    /\ m_undoStack = <<>>
    /\ Emitted(events, "dataOutdated")

\* C10 (as claimed): after every command m_size is the number of rows of
\* timelog.
C10_SizeIsRowCount ==
  m_size = Cardinality(timelog)

\* The last command was undo(), and the frame it popped is the frame the
\* command before it pushed.
Undone(type) ==
  /\ last.op = "undo"
  /\ last.frame.type = type
  /\ pre.undo = Append(before.undo, last.frame)

\* C11: insert(E) writes the row of E where E.uuid had no tombstone, and
\* undo() is the next command: timelog holds the rows it held before the
\* insert, each with its start, category, comment, duration and mtime.
C11_InsertUndone ==
  (/\ Undone("Insert")
   /\ Live(before.tl, last.frame.data[1].uuid) = {}
   /\ Live(pre.tl, last.frame.data[1].uuid) # {}
   /\ \A t \in before.rm : t.uuid # last.frame.data[1].uuid)
  => timelog = before.tl

\* C11 witness: the insert had put E between two rows, time has passed, and
\* the undo has taken E out again.
C11_Witness ==
  /\ Undone("Insert")
  /\ \A t \in before.rm : t.uuid # last.frame.data[1].uuid
  /\ \E e \in pre.tl, a \in before.tl, b \in before.tl :
       /\ e.uuid = last.frame.data[1].uuid
       /\ a.start < e.start /\ e.start < b.start
  /\ pre.now > before.now
  /\ timelog = before.tl

\* The start, category and comment of a row or entry.
Values(r) == <<r.start, r.category, r.comment>>

\* The duration of each row, by uuid.
Durations(tl) == {<<r.uuid, r.duration>> : r \in tl}

\* C12: remove(E) of a live entry, and undo() is the next command: E.uuid is
\* live with the start, category and comment it had, every live row has the
\* duration it had before the remove, and E.uuid has no tombstone.
C12_RemoveUndone ==
  (/\ Undone("Remove")
   /\ Live(before.tl, last.frame.data[1].uuid) # {})
  => /\ \E r \in timelog, o \in before.tl :
          /\ r.uuid = last.frame.data[1].uuid
          /\ o.uuid = r.uuid
          /\ Values(r) = Values(o)
     /\ Durations(timelog) = Durations(before.tl)
     /\ \A t \in removed : t.uuid # last.frame.data[1].uuid

\* C12 witness: the removed row had an mtime later than the clock at the
\* remove, and the undo, in the same millisecond as the remove, has brought
\* it back.
C12_Witness ==
  /\ Undone("Remove")
  /\ pre.now = before.now
  /\ \E o \in before.tl :
       /\ o.uuid = last.frame.data[1].uuid
       /\ o.mtime > before.now
       /\ Live(pre.tl, o.uuid) = {}
       /\ Live(timelog, o.uuid) # {}

\* C13: edit(E', mask) with a mask that is not empty succeeds on the live
\* entry E, and undo() is the next command: the row of E.uuid has the start,
\* category and comment it had before the edit, and every live row has the
\* duration it had before the edit.
C13_EditUndone ==
  (/\ Undone("Edit")
   /\ last.frame.fields[1] # NoFields
   /\ Live(before.tl, last.frame.data[1].uuid) # {})
  => /\ \E r \in timelog, o \in before.tl :
          /\ r.uuid = last.frame.data[1].uuid
          /\ o.uuid = r.uuid
          /\ Values(r) = Values(o)
     /\ Durations(timelog) = Durations(before.tl)

\* C13 witness: in a table of three rows the edit had moved a row across
\* another one and changed its category, and the undo has put back both.
C13_Witness ==
  /\ Undone("Edit")
  /\ {StartTime, Category} \subseteq last.frame.fields[1]
  /\ Cardinality(timelog) = 3
  /\ \E o \in before.tl, e \in pre.tl, b \in before.tl :
       /\ o.uuid = last.frame.data[1].uuid
       /\ e.uuid = o.uuid
       /\ e.category # o.category
       /\ o.start < b.start /\ b.start < e.start
  /\ timelog # pre.tl
  /\ Durations(timelog) = Durations(before.tl)

\* The start, category and comment of each row, by uuid.
ValuesOf(tl) == {<<r.uuid, Values(r)>> : r \in tl}

\* The last command was editCategory(old, new) with new not empty and not old.
Renaming ==
  /\ last.op = "editCategory"
  /\ last.newName # NoCategory
  /\ last.newName # last.oldName

\* undo() of an editCategory has left the start, category and comment of
\* every row, and every duration, as they were before the editCategory.
RenameUndone ==
  Undone("EditCategory") =>
    /\ ValuesOf(timelog) = ValuesOf(before.tl)
    /\ Durations(timelog) = Durations(before.tl)

\* C14 (as claimed): editCategory(old, new) gives every row of category old
\* the category new and an mtime not earlier than it had, and leaves the
\* other rows as they were; an undo() that follows restores the categories.
C14_CategoryRenamed ==
  /\ Renaming =>
       \A o \in pre.tl : \E r \in timelog :
         /\ r.uuid = o.uuid
         /\ IF o.category = last.oldName
              THEN /\ r = [o EXCEPT !.category = last.newName, !.mtime = r.mtime]
                   /\ r.mtime >= o.mtime
              ELSE r = o
  /\ RenameUndone

\* C14 (amended): editCategory(old, new) gives every row of category old
\* whose mtime is not later than the clock the category new and the clock as
\* its mtime, and leaves as they were the rows of category old with a later
\* mtime and the rows of other categories; an undo() that follows restores
\* the categories.
C14_CategoryRenamedUnlessLater ==
  /\ Renaming =>
       \A o \in pre.tl : \E r \in timelog :
         /\ r.uuid = o.uuid
         /\ IF o.category = last.oldName /\ o.mtime <= pre.now
              THEN r = [o EXCEPT !.category = last.newName, !.mtime = pre.now]
              ELSE r = o
  /\ RenameUndone

\* C14 witness: two rows were renamed to the category a third row had, time
\* has passed, and the undo has given the two their category back.
C14_Witness ==
  /\ Undone("EditCategory")
  /\ Len(last.frame.data) = 2
  /\ \E o \in before.tl : o.category # last.frame.data[1].category
  /\ \A r \in pre.tl : r.category # last.frame.data[1].category
  /\ pre.now > before.now
  /\ ValuesOf(timelog) = ValuesOf(before.tl)

\* C15: the undo stack never holds more than maxUndoSize frames; a push onto
\* a stack of maxUndoSize drops the oldest frame, keeps the others in their
\* order under the new frame, and emits no undoCountChanged.
C15_UndoStackBounded ==
  /\ Len(m_undoStack) <= maxUndoSize
  /\ (/\ last.op \in {"insert", "edit"}
      /\ Len(pre.undo) = maxUndoSize
      /\ m_undoStack # <<>>)
     => /\ Len(m_undoStack) = maxUndoSize
        /\ SubSeq(m_undoStack, 1, maxUndoSize - 1) = Tail(pre.undo)
        /\ m_undoStack[maxUndoSize].type = (IF last.op = "edit" THEN "Edit" ELSE "Insert")
        /\ ~Emitted(events, "undoCountChanged")

\* C15 witness: an edit has pushed its frame onto a stack of maxUndoSize
\* whose two oldest frames differ, and the second oldest is now the oldest.
C15_Witness ==
  /\ last.op = "edit"
  /\ Len(pre.undo) = maxUndoSize
  /\ pre.undo[1] # pre.undo[2]
  /\ Len(m_undoStack) = maxUndoSize
  /\ m_undoStack[1] = pre.undo[2]

\* The last command was one the validation rejects: an edit with the empty
\* mask or of a uuid that is not live, or an editCategory with the empty new
\* name.
Rejected ==
  \/ /\ last.op = "edit"
     /\ \/ last.fields = NoFields
        \/ Live(pre.tl, last.data[1].uuid) = {}
  \/ last.op = "editCategory" /\ last.newName = NoCategory

\* C16 (as claimed): a rejected command emits error and leaves timelog,
\* removed and the undo stack as they were.
C16_RejectedLeavesState ==
  Rejected =>
    /\ Emitted(events, "error")
    /\ timelog = pre.tl
    /\ removed = pre.rm
    /\ m_undoStack = pre.undo

\* C17 (as claimed): editCategory(old, new) when no row has category old
\* takes old out of the category set, emits no error and no dataOutdated,
\* keeps the frames of the undo stack and leaves timelog as it was.
C17_NoRowsIsNoOp ==
  (Renaming /\ \A r \in pre.tl : r.category # last.oldName) =>
    /\ last.oldName \notin m_categories
    /\ ~Emitted(events, "error")
    /\ ~Emitted(events, "dataOutdated")
    /\ Len(m_undoStack) >= Len(pre.undo)
    /\ SubSeq(m_undoStack, 1, Len(pre.undo)) = pre.undo
    /\ timelog = pre.tl

\* The last command was insert(E) with the start of E taken by a live row.
StartTaken ==
  /\ last.op = "insert"
  /\ \E r \in pre.tl : r.start = last.data[1].start

\* The insert fails: error is emitted, timelog and removed are as they were,
\* no dataInserted is emitted and the undo stack is empty.
InsertFailed ==
  /\ Emitted(events, "error")
  /\ timelog = pre.tl
  /\ removed = pre.rm
  /\ ~Emitted(events, "dataInserted")
  /\ m_undoStack = <<>>

\* C18 (as claimed): insert(E) fails when a live row has the start of E.
C18_StartTakenFails == StartTaken => InsertFailed

\* C18 (amended): insert(E) fails when a live row has the start of E, unless
\* E.uuid has a tombstone with an mtime later than the clock, which makes the
\* insert a silent no-op before the start is checked.
C18_StartTakenFailsUnlessSuppressed ==
  (/\ StartTaken
   /\ \A t \in pre.rm : t.uuid = last.data[1].uuid => t.mtime <= pre.now)
  => InsertFailed

\* C18 witness: the start of E was taken by the row of another uuid, E.uuid
\* had a tombstone not later than the clock, and the insert has failed.
C18_Witness ==
  /\ StartTaken
  /\ \E r \in pre.tl : r.start = last.data[1].start /\ r.uuid # last.data[1].uuid
  /\ \E t \in pre.rm : t.uuid = last.data[1].uuid /\ t.mtime <= pre.now
  /\ last.wfail
  /\ InsertFailed

\* The last command was insert(E), E.uuid having the tombstone t.
InsertOver(t) == last.op = "insert" /\ last.data[1].uuid = t.uuid

\* The last command was a sync whose updatedData has a record of the uuid of
\* the tombstone t, each such record with an mtime for which Cmp holds.
SyncOver(t, Cmp(_, _)) ==
  /\ last.op = "sync"
  /\ \E e \in Range(last.data) : e.uuid = t.uuid
  /\ \A e \in Range(last.data) : e.uuid = t.uuid => Cmp(e.mtime, t.mtime)

\* The uuid has no live row and has a tombstone.
StillRemoved(u) == Live(timelog, u) = {} /\ \E q \in removed : q.uuid = u

\* C19 (as claimed): an insert, local or by sync, with the mtime of the
\* tombstone of its uuid creates no live row and leaves the tombstone; a
\* live row that takes the place of a tombstone has a later mtime.
C19_EqualMTimeSuppressed ==
  \A t \in pre.rm :
    /\ (InsertOver(t) /\ pre.now = t.mtime) => StillRemoved(t.uuid)
    /\ SyncOver(t, LAMBDA m, n : m = n) => StillRemoved(t.uuid)
    /\ \A r \in timelog : r.uuid = t.uuid => r.mtime > t.mtime

\* C19 (amended): a local insert with an mtime earlier than the tombstone of
\* its uuid is a silent no-op; one with the mtime of the tombstone, its start
\* being free, creates the row and clears the tombstone; a sync insert with
\* an mtime not later than the tombstone creates no row and leaves a
\* tombstone; a live row that takes the place of a tombstone has an mtime not
\* earlier.
C19_EarlierMTimeSuppressed ==
  \A t \in pre.rm :
    /\ (InsertOver(t) /\ pre.now < t.mtime) =>
         /\ timelog = pre.tl
         /\ removed = pre.rm
         /\ ~Emitted(events, "error")
    /\ (/\ InsertOver(t)
        /\ pre.now = t.mtime
        /\ \A r \in pre.tl : r.start # last.data[1].start) =>
         /\ Live(timelog, t.uuid) # {}
         /\ \A q \in removed : q.uuid # t.uuid
    /\ SyncOver(t, LAMBDA m, n : m <= n) => StillRemoved(t.uuid)
    /\ \A r \in timelog : r.uuid = t.uuid => r.mtime >= t.mtime

\* C19 witness: a local insert with the mtime of the tombstone of its uuid has
\* created the row and cleared the tombstone.
C19_Witness ==
  \E t \in pre.rm :
    /\ InsertOver(t)
    /\ pre.now = t.mtime
    /\ \E r \in timelog : r.uuid = t.uuid /\ r.mtime = t.mtime
    /\ \A q \in removed : q.uuid # t.uuid

\* C20 (as claimed): from the start of a command to its end, the mtime of
\* the record of a uuid (its live row or its tombstone) does not decrease.
C20_MTimeNeverDecreases ==
  \A o \in pre.tl \cup pre.rm :
    \A r \in Held(timelog, removed, o.uuid) : r.mtime >= o.mtime

\* The position of a signal in the order of one insert, remove or edit: the
\* primary event, sizeChanged, categoriesChanged, the neighbours' dataUpdated;
\* 0 for the signals the order does not mention.
Rank(op, type) ==
  CASE type = "dataInserted" /\ op = "insert" -> 1
    [] type = "dataRemoved" /\ op = "remove" -> 1
    [] type = "dataUpdated" /\ op = "edit" -> 1
    [] type = "sizeChanged" -> 2
    [] type = "categoriesChanged" -> 3
    [] type = "dataUpdated" /\ op # "edit" -> 4
    [] OTHER -> 0

InOrder(op, evs) ==
  \A i, j \in 1 .. Len(evs) :
    (i < j /\ Rank(op, evs[i].type) > 0 /\ Rank(op, evs[j].type) > 0)
      => Rank(op, evs[i].type) <= Rank(op, evs[j].type)

\* C21: in one insert, remove or edit the primary event (dataInserted,
\* dataRemoved, dataUpdated) comes first, then sizeChanged, then
\* categoriesChanged, then the dataUpdated of the neighbours.
C21_PrimaryEventFirst ==
  last.op \in {"insert", "remove", "edit"} => InOrder(last.op, events)

\* The data events among the signals evs, in order.
DataEvents(evs) ==
  SelectSeq(evs, LAMBDA e : e.type \in {"dataRemoved", "dataInserted", "dataUpdated"})

\* The field mask of a dataUpdated that reports the neighbours of an entry.
NeighbourMask == {DurationTime, PrecedingStart}

IsNeighbourUpdate(e) == e.type = "dataUpdated" /\ e.fields = NeighbourMask

\* The uuids the events of the given type carry, in order.
Carried(evs, type) ==
  LET of == SelectSeq(evs, LAMBDA e : e.type = type)
  IN [i \in 1 .. Len(of) |-> of[i].u[1]]

\* The data events d come in the five phases of a sync: dataRemoved, the
\* neighbours of the removed, dataInserted, the neighbours of the inserted,
\* the updated entries.
InPhases(d) ==
  \E a, b, c, n \in 0 .. Len(d) :
    /\ a <= b /\ b <= c /\ c <= n
    /\ \A i \in 1 .. Len(d) :
         /\ i <= a => d[i].type = "dataRemoved"
         /\ (a < i /\ i <= b) => IsNeighbourUpdate(d[i])
         /\ (b < i /\ i <= c) => d[i].type = "dataInserted"
         /\ (c < i /\ i <= n) => IsNeighbourUpdate(d[i])
         /\ n < i => d[i].type = "dataUpdated" /\ ~IsNeighbourUpdate(d[i])

\* The lists of the last sync, from the state it started in.
LastLists == Classify(pre.tl, pre.rm, last.data, last.removedData)

\* C22: a sync emits syncStatsAvailable before anything else; when it commits,
\* the data events follow in the order dataRemoved (one for each removed entry
\* that was live), the neighbours of the removed, dataInserted (one for each
\* inserted entry), the neighbours of the inserted, the updated entries, and
\* dataSynced is last; when it fails there is no data event and no dataSynced.
C22_SyncOrder ==
  last.op = "sync" =>
    /\ events # <<>> /\ events[1].type = "syncStatsAvailable"
    /\ last.ok =>
         /\ events[Len(events)].type = "dataSynced"
         /\ Len(SelectSeq(events, LAMBDA e : e.type = "dataSynced")) = 1
         /\ InPhases(DataEvents(events))
         /\ Carried(events, "dataRemoved")
              = Uuids(SelectSeq(Merged(LastLists), isValid))
         /\ Carried(events, "dataInserted") = Uuids(LastLists.insertedNew)
         /\ Len(SelectSeq(events, LAMBDA e : e.type = "dataUpdated"
                                             /\ ~IsNeighbourUpdate(e)))
              <= Len(LastLists.updatedNew)
    /\ ~last.ok =>
         /\ DataEvents(events) = <<>>
         /\ ~Emitted(events, "dataSynced")

\* A committed sync with two dataRemoved, neighbours of the removed, a
\* dataInserted, neighbours of the inserted and an updated entry.
C22_Witness ==
  /\ last.op = "sync" /\ last.ok
  /\ LET d == DataEvents(events)
     IN /\ Len(d) >= 6
        /\ d[1].type = "dataRemoved" /\ d[2].type = "dataRemoved"
        /\ IsNeighbourUpdate(d[3])
        /\ \E i \in 4 .. Len(d) - 2 :
             /\ d[i].type = "dataInserted"
             /\ IsNeighbourUpdate(d[i + 1])
        /\ d[Len(d)].type = "dataUpdated" /\ ~IsNeighbourUpdate(d[Len(d)])

\* The signals of the given type among evs, in order.
OfType(evs, type) == SelectSeq(evs, LAMBDA e : e.type = type)

\* C23: every sizeChanged carries a size different from the size held just
\* before it, and every categoriesChanged a category set different from the
\* set held just before it, the one of the rebuild after editCategory
\* included.
C23_EmittedOnChange ==
  last.op # "init" =>
    /\ \A i \in 1 .. Len(OfType(events, "sizeChanged")) :
         OfType(events, "sizeChanged")[i].n
           # (IF i = 1 THEN pre.size ELSE OfType(events, "sizeChanged")[i - 1].n)
    /\ \A i \in 1 .. Len(OfType(events, "categoriesChanged")) :
         OfType(events, "categoriesChanged")[i].cats
           # (IF i = 1 THEN pre.cats
              ELSE OfType(events, "categoriesChanged")[i - 1].cats)

\* The rows of the range whose category is the filter or begins with the
\* filter followed by the separator.
InFilter(tl, c) ==
  {r \in tl : c.begin <= r.start /\ r.start <= c.end
              /\ (r.category = c.category
                  \/ LIKE(r.category, c.category \o c.separator))}

RECURSIVE Total(_)
Total(rows) == IF rows = <<>> THEN 0 ELSE Head(rows).durationTime + Total(Tail(rows))

\* C24: with a non-empty filter F and separator S, getStats aggregates only
\* the rows of the range whose category is F or begins with F followed by S:
\* every bucket is F or begins with F S, and the durations of the buckets add
\* up to those of these rows; a row of category "w2" is in no bucket of the
\* filter "w".
C24_FilterBySegment ==
  (last.op = "getStats" /\ last.category # "") =>
    /\ \A i \in 1 .. Len(events[1].rows) :
         \/ events[1].rows[i].category = last.category
         \/ LIKE(events[1].rows[i].category, last.category \o last.separator)
    /\ Total(events[1].rows)
         = SumDuration(timelog, InFilter(timelog, last), last.secs)

\* The local record of uuid when the last command started: the live row, else
\* the tombstone, else an empty record.
LocalRecord(u) ==
  IF \E r \in pre.tl : r.uuid = u
    THEN LiveRec(CHOOSE r \in pre.tl : r.uuid = u)
  ELSE IF \E t \in pre.rm : t.uuid = u
    THEN TombRec(CHOOSE t \in pre.rm : t.uuid = u)
  ELSE DefaultEntry

\* The record e of the batch is skipped: the local record is not older.
Skipped(e) ==
  \E r \in pre.tl \cup pre.rm : r.uuid = e.uuid /\ r.mtime >= e.mtime

HadLive(e) == \E r \in pre.tl : r.uuid = e.uuid

\* The lists old and new have one length and old[i] is the local record of
\* new[i].
Paired(old, new) ==
  /\ Len(old) = Len(new)
  /\ \A i \in 1 .. Len(new) : old[i] = LocalRecord(new[i].uuid)

\* C25: the records of updatedData that are not skipped go, in their order,
\* to insertedNew when the uuid has no live row (no local record, or only a
\* tombstone) and to updatedNew when it has one; the records of removedData
\* that are not skipped go to removedNew; each *Old list has the length of its
\* *New list and holds at each index the local record of the uuid, or an
\* empty record.
C25_Classified ==
  last.op = "sync" =>
    /\ events[1].insertedNew
         = SelectSeq(last.data, LAMBDA e : ~Skipped(e) /\ ~HadLive(e))
    /\ events[1].updatedNew
         = SelectSeq(last.data, LAMBDA e : ~Skipped(e) /\ HadLive(e))
    /\ events[1].removedNew = SelectSeq(last.removedData, LAMBDA e : ~Skipped(e))
    /\ Paired(events[1].insertedOld, events[1].insertedNew)
    /\ Paired(events[1].updatedOld, events[1].updatedNew)
    /\ Paired(events[1].removedOld, events[1].removedNew)

\* A sync of two updates and two removals: one update is skipped for a live
\* row that is not older, the other is an insert over a tombstone, and one
\* removal is skipped.
C25_Witness ==
  /\ last.op = "sync"
  /\ Len(last.data) = 2 /\ Len(last.removedData) = 2
  /\ \E i \in 1 .. 2 : Skipped(last.data[i]) /\ HadLive(last.data[i])
  /\ Len(events[1].insertedNew) = 1
  /\ ~isValid(events[1].insertedOld[1]) /\ events[1].insertedOld[1] # DefaultEntry
  /\ Len(events[1].removedNew) = 1

\* What an observer sees of the live entry r of the table tl: start, category,
\* comment, duration and precedingStart (the start of the entry before it).
Observable(tl, r) ==
  <<r.start, r.category, r.comment, r.duration, PrevStart(tl, r.start)>>

\* The uuids of the live entries that the last command created or changed,
\* and of those it deleted.
ChangedLive ==
  {r.uuid : r \in {q \in timelog :
     \A p \in pre.tl : p.uuid = q.uuid => Observable(pre.tl, p) # Observable(timelog, q)}}
DeletedLive == {p.uuid : p \in pre.tl} \ {r.uuid : r \in timelog}

\* The uuids the events of the given types carry.
CarriedBy(evs, types) ==
  UNION {Range(evs[i].u) : i \in {j \in 1 .. Len(evs) : evs[j].type \in types}}

\* The last command is a committed insert, remove or edit of one entry, or
\* the undo of one.
SingleEntry ==
  /\ last.ok /\ ~last.wfail /\ ~last.bad
  /\ \/ last.op \in {"insert", "remove", "edit"}
     \/ last.op = "undo" /\ last.frame.type \in {"Insert", "Remove", "Edit"}

\* The entry and the mask of the edit the last command ran.
EditOf ==
  IF last.op = "edit" THEN [data |-> last.data[1], fields |-> last.fields]
  ELSE [data |-> last.frame.data[1], fields |-> last.frame.fields[1]]

EditInPlace ==
  /\ \/ last.op = "edit"
     \/ last.op = "undo" /\ last.frame.type = "Edit"
  /\ EditOf.fields # NoFields /\ StartTime \notin EditOf.fields
  /\ Live(pre.tl, EditOf.data.uuid) # {}

\* C26: after a committed insert, remove or edit of one entry, also by undo,
\* every live entry whose start, category, comment, duration or
\* precedingStart changed is carried by a dataInserted or dataUpdated of the
\* command and every deleted entry by a dataRemoved; an edit without
\* StartTime emits one dataUpdated, which holds exactly the edited row.
C26_ChangesReported ==
  SingleEntry =>
    /\ ChangedLive \subseteq CarriedBy(events, {"dataInserted", "dataUpdated"})
    /\ DeletedLive \subseteq CarriedBy(events, {"dataRemoved"})
    /\ EditInPlace =>
         /\ Len(OfType(events, "dataUpdated")) = 1
         /\ OfType(events, "dataUpdated")[1].u = <<EditOf.data.uuid>>

\* The replay of the frame f ran: a signal of the inverse operation, or of
\* its failure.
Replayed(f, evs) ==
  \/ Emitted(evs, "dataOutdated")
  \/ f.type = "Insert" /\ f.data[1].uuid \in CarriedBy(evs, {"dataRemoved"})
  \/ f.type = "Remove" /\ f.data[1].uuid \in CarriedBy(evs, {"dataInserted"})
  \/ f.type \in {"Edit", "EditCategory"}

\* C27: undo() on a non-empty stack pops the top frame, replays its inverse
\* and pushes nothing: the stack is then the stack before without its top, or
\* empty after a failure; undo() on an empty stack leaves the tables and the
\* stack alone and emits nothing.
C27_UndoPopsOne ==
  (last.op = "undo" /\ ~crashed) =>
    IF pre.undo = <<>>
      THEN /\ timelog = pre.tl /\ removed = pre.rm
           /\ m_undoStack = <<>>
           /\ events = <<>>
      ELSE /\ last.frame = pre.undo[Len(pre.undo)]
           /\ m_undoStack \in {SubSeq(pre.undo, 1, Len(pre.undo) - 1), <<>>}
           /\ Len(m_undoStack) <= Len(pre.undo) - 1
           /\ Replayed(last.frame, events)

\* An undo() on a stack of two frames that leaves the first.
C27_Witness ==
  /\ last.op = "undo" /\ ~crashed
  /\ Len(pre.undo) = 2
  /\ m_undoStack = <<pre.undo[1]>>
  /\ timelog # pre.tl

\* The uuid u has a tombstone with an mtime later than m when the last
\* command starts.
NewerTombstone(u, m) == \E t \in pre.rm : t.uuid = u /\ m < t.mtime

\* The mtimes of the tombstones of u that an insert of the last sync meets:
\* those of the start and those of the removals the sync writes first.
SyncTombstones(u) ==
  {t.mtime : t \in {q \in pre.rm : q.uuid = u}}
  \cup {e.mtime : e \in {q \in Range(last.removedData) : q.uuid = u /\ ~Skipped(q)}}

\* Every record of u in the updatedData of the last sync is older than a
\* tombstone of u.
OlderThanTombstone(u) ==
  \E m \in SyncTombstones(u) :
    \A e \in Range(last.data) : e.uuid = u => e.mtime < m

\* The tombstone of u is there, with the mtime it had or a later one.
TombstoneKept(u) ==
  /\ Live(timelog, u) = {}
  /\ \A t \in pre.rm : t.uuid = u =>
       \E q \in removed : q.uuid = u /\ q.mtime >= t.mtime

NoFailurePath ==
  /\ last.ok /\ ~last.wfail
  /\ ~Emitted(events, "error") /\ ~Emitted(events, "dataOutdated")

\* C28: an insert with an mtime earlier than that of a tombstone of its uuid
\* is suppressed without an error.  insert(E) and an import of such entries
\* only leave both tables as they were and do not take the failure path; in
\* any import and in a sync the uuid gets no live row and its tombstone stays;
\* a sync of such records only does not fail, and without removals it leaves
\* both tables as they were.
C28_StaleInsertSuppressed ==
  /\ (last.op = "insert" /\ NewerTombstone(last.data[1].uuid, pre.now)) =>
       /\ timelog = pre.tl /\ removed = pre.rm
       /\ NoFailurePath
       /\ m_undoStack = Append(pre.undo, Frame("Insert", last.data, <<>>))
  /\ last.op = "import" =>
       /\ \A e \in Range(last.data) :
            NewerTombstone(e.uuid, pre.now) => TombstoneKept(e.uuid)
       /\ (\A e \in Range(last.data) : NewerTombstone(e.uuid, pre.now)) =>
            /\ timelog = pre.tl /\ removed = pre.rm
            /\ NoFailurePath
  /\ last.op = "sync" =>
       /\ \A e \in Range(last.data) :
            (last.ok /\ OlderThanTombstone(e.uuid)) =>
              /\ TombstoneKept(e.uuid)
              /\ \E q \in removed : q.uuid = e.uuid /\ e.mtime < q.mtime
       /\ (\A e \in Range(last.data) : OlderThanTombstone(e.uuid)) =>
            /\ last.ok /\ ~Emitted(events, "error")
            /\ last.removedData = <<>> => (timelog = pre.tl /\ removed = pre.rm)

\* A sync has written the tombstone of a uuid and then met an insert of the
\* uuid with an earlier mtime: the uuid has no live row.
C28_Witness ==
  /\ last.op = "sync" /\ last.ok
  /\ \E e \in Range(last.data) :
       /\ pre.rm = {} /\ pre.tl # {} /\ Live(pre.tl, e.uuid) = {}
       /\ OlderThanTombstone(e.uuid)
       /\ Live(timelog, e.uuid) = {}
       /\ timelog = pre.tl

\* The last command has run an edit of the uuid u: edit, or the undo of an
\* edit or of a rename that holds an entry of u.
EditedBy(u) ==
  \/ last.op = "edit" /\ last.data[1].uuid = u /\ last.fields # NoFields
  \/ /\ last.op = "undo" /\ last.frame.type \in {"Edit", "EditCategory"}
     /\ \E e \in Range(last.frame.data) : e.uuid = u

\* The last command has written a tombstone of the uuid u: remove, or the
\* undo of an insert.
RemovedBy(u) ==
  \/ last.op = "remove" /\ last.data[1].uuid = u
  \/ last.op = "undo" /\ last.frame.type = "Insert" /\ last.frame.data[1].uuid = u

\* The records of the uuid u in the sequence seq are some, and all have an
\* mtime earlier than m.
AllEarlier(seq, u, m) ==
  /\ \E e \in Range(seq) : e.uuid = u
  /\ \A e \in Range(seq) : e.uuid = u => e.mtime < m

NoneOf(seq, u) == \A e \in Range(seq) : e.uuid # u

\* C29: a write with an earlier mtime does not overwrite a record in place.
\* A live row with an mtime later than that of an edit, a rename of its
\* category or a sync update of its uuid keeps its start, category, comment,
\* duration and mtime; a tombstone with an mtime later than that of a remove
\* or a sync removal of its uuid stays as it is.
C29_StaleWriteIgnored ==
  /\ \A o \in pre.tl :
       /\ (EditedBy(o.uuid) /\ pre.now < o.mtime) => o \in timelog
       /\ (last.op = "editCategory" /\ last.oldName = o.category
           /\ pre.now < o.mtime) => o \in timelog
       /\ (last.op = "sync" /\ AllEarlier(last.data, o.uuid, o.mtime)
           /\ NoneOf(last.removedData, o.uuid)) =>
            /\ \E r \in timelog :
                 /\ r.uuid = o.uuid /\ Values(r) = Values(o) /\ r.mtime = o.mtime
            /\ Len(last.data) = 1 /\ last.removedData = <<>> => o \in timelog
  /\ \A t \in pre.rm :
       /\ (RemovedBy(t.uuid) /\ pre.now < t.mtime) => t \in removed
       /\ (last.op = "sync" /\ AllEarlier(last.removedData, t.uuid, t.mtime)
           /\ NoneOf(last.data, t.uuid)) => t \in removed

\* An edit of every field of a row whose mtime is later than the clock, with
\* another start, category and place, has left the row as it was.
C29_Witness ==
  /\ last.op = "edit" /\ last.fields = AllFieldsMask /\ last.ok
  /\ \E o \in pre.tl :
       /\ o.uuid = last.data[1].uuid
       /\ pre.now < o.mtime
       /\ o.start # last.data[1].start /\ o.category # last.data[1].category
       /\ \A r \in pre.tl : r.start # last.data[1].start
       /\ o \in timelog

\* C30: in every call the Q_ASSERTs on the arguments of the writes hold:
\* insertData and editData get a valid entry, removeData a uuid that is not
\* null, also in an undo() after a remove or an edit of a uuid that is not
\* live.
C30_WriteArgumentsValid == ~last.bad

\* The uuids the dataInserted signals of the last command carry.
InsertedUuids ==
  {events[i].u[1] : i \in {j \in 1 .. Len(events) : events[j].type = "dataInserted"}}

\* C31: every dataInserted(E), from insert, from the undo of a remove or from
\* sync, is emitted only when E.uuid is a live row of timelog (the writes of
\* a command all come before its dataInserted signals, so the table at the
\* emission is the table the command leaves); an insert that a newer
\* tombstone suppressed emits no dataInserted.
C31_InsertedIsLive == \A u \in InsertedUuids : Live(timelog, u) # {}

\* The undoCountChanged signals of the last command, and the count an
\* observer shows after it: the value of the last of them, or what it showed
\* before (the size of the stack then, 0 for a new worker) when there is none.
UndoCounts == OfType(events, "undoCountChanged")
ShownCount ==
  IF UndoCounts = <<>> THEN Len(pre.undo) ELSE UndoCounts[Len(UndoCounts)].n

\* C32: after every command the value of the most recently emitted
\* undoCountChanged (0 before any emission) is the number of frames on the
\* undo stack, also after a push over the cap of 10 frames, after a failed
\* command and after an undo() whose replayed operation fails.
C32_CountShown == ShownCount = Len(m_undoStack)

\* A command that failed right after a push over the cap: the command before
\* it met a full stack and left a full stack of other frames (its push
\* dropped the oldest frame and emitted nothing), and the failed command
\* cleared the stack and showed 0.
C32_Witness ==
  /\ Len(before.undo) = maxUndoSize
  /\ Len(pre.undo) = maxUndoSize
  /\ pre.undo # before.undo
  /\ last.op = "insert" /\ ~last.ok
  /\ m_undoStack = <<>>
  /\ UndoCounts # <<>>
  /\ ShownCount = 0

====
